---- MODULE Spec2Model ----
(***************************************************************************)
(* dev-trader-pro (src/src/App.jsx): the compounding plan engine           *)
(* (recalculatePlan and the journal handlers that call it) and the demo    *)
(* margin trader (price feed, trigger evaluation, position ledger).        *)
(*                                                                         *)
(* Numbers.  JavaScript numbers are carried on integer grids:              *)
(*   - plan money (capital, target, profit, actual) in hundredths of a     *)
(*     currency unit, the two decimals handleTradeClose writes;            *)
(*   - the compounding rate in units of 1/RateScale;                       *)
(*   - dailyRate as an exact fraction <<numerator, denominator>>;          *)
(*   - a string-or-number field as a sequence: << >> is the empty string   *)
(*     (or null), <<v>> is the number v.                                   *)
(***************************************************************************)
EXTENDS Integers, Sequences, FiniteSets, TLC

VARIABLES
    data,            \* JournalAppComponent: the in-memory plan document
    firestoreTimer,  \* window.firestoreTimer: << >> or <<the document to be saved>>
    delay,           \* the time left on window.firestoreTimer, in half seconds
    saved,           \* the documents setDoc has been called with, in order
    snapshots,       \* how many of these writes onSnapshot has been called for
    message,         \* JournalAppComponent: the last notification raised, << >> before any
    prices,          \* useSimulatedPrices: the current quote of every instrument
    positions,       \* DemoTrader: the open positions, in order
    tradeHistory,    \* DemoTrader: the closed trades, newest first
    rendered,        \* what the last render handed to the event handlers' closures
    mounted,         \* DemoTrader is mounted: its intervals and handlers exist
    nextId           \* the ids crypto.randomUUID has given out so far

firestoreVars == <<firestoreTimer, delay, saved, snapshots>>
planVars == <<data, firestoreVars>>
traderVars == <<message, prices, positions, tradeHistory, rendered, mounted, nextId>>
vars == <<data, firestoreTimer, delay, saved, snapshots,
          message, prices, positions, tradeHistory, rendered, mounted, nextId>>

----------------------------------------------------------------------------
(* Constants of the program                                                *)

DEFAULT_INITIAL_CAPITAL == 50000
DEFAULT_FINAL_TARGET == 1000000
DEFAULT_TENURE_DAYS == 66
TRADING_DAYS_PER_MONTH == 22
LOT_SIZE == 100000
LEVERAGE_OPTIONS == {1, 50, 100, 200, 400}
DEFAULT_RULES ==
    << [text |-> "MAINTAIN DISCIPLINE: ADHERE TO THE PLAN", checked |-> FALSE],
       [text |-> "VALIDATE STRATEGY: CONFIRM ENTRY/EXIT CRITERIA", checked |-> FALSE],
       [text |-> "ASSESS MACRO TREND: CONSULT HIGHER TIMEFRAMES", checked |-> FALSE],
       [text |-> "RISK PROTOCOL: MAX 2% CAPITAL PER ENGAGEMENT", checked |-> FALSE] >>

(* Hundredths per currency unit (toFixed(2)). *)
Cents == 100
(* Resolution of the compounding rate. *)
RateScale == 10 * 1000

----------------------------------------------------------------------------
(* Arithmetic helpers                                                      *)

Abs(x) == IF x < 0 THEN -x ELSE x

RECURSIVE Gcd(_, _)
Gcd(a, b) == IF b = 0 THEN a ELSE Gcd(b, a % b)

(* Math.round on an amount in hundredths: nearest whole unit, halves up. *)
MathRound(x) == ((x + Cents \div 2) \div Cents) * Cents

(* floor(x * r / RateScale) for x >= 0, r >= 0, without leaving 32 bits. *)
MulRate(x, r) ==
    LET r1 == r \div RateScale
        r0 == r % RateScale
        x1 == x \div RateScale
        x0 == x % RateScale
    IN  x * r1 + x1 * r0 + (x0 * r0) \div RateScale

Compound_Discount(x, r) == x - MulRate(x, r)

(* plannedCapital * (1 + rate) *)
Compound(x, r) == x + MulRate(x, r)

(* TRUE iff compounding c for n steps at rate r stays at or below t. *)
RECURSIVE Reaches(_, _, _, _)
Reaches(c, r, n, t) ==
    IF c > t THEN FALSE
    ELSE IF n = 0 THEN TRUE
    ELSE Reaches(Compound(c, r), r, n - 1, t)

(* The largest r in lo..hi with Reaches(c, r, n, t); Reaches(c, lo, n, t). *)
RECURSIVE Bisect(_, _, _, _, _)
Bisect(lo, hi, c, n, t) ==
    IF lo >= hi THEN lo
    ELSE LET mid == (lo + hi + 1) \div 2
         IN  IF Reaches(c, mid, n, t) THEN Bisect(mid, hi, c, n, t)
             ELSE Bisect(lo, mid - 1, c, n, t)

(* Math.pow(t / c, 1 / n) - 1 on the rate grid, for 0 < c < t, n > 0: the  *)
(* largest grid rate whose n-fold compounding of c does not pass t. It is  *)
(* at most (t/c - 1)/n, which bounds the search.                           *)
PowRate(c, t, n) == Bisect(0, (RateScale * (t \div c)) \div n + 1, c, n, t)

(* The fraction num/den in lowest terms; 0 is <<0, 1>>. *)
Fraction(num, den) ==
    IF num = 0 THEN <<0, 1>>
    ELSE LET g == Gcd(Abs(num), Abs(den)) IN <<num \div g, den \div g>>

(* Number(x) || 0 of a string-or-number field. *)
NumberOr0(x) == IF x = << >> THEN 0 ELSE x[1]

----------------------------------------------------------------------------
(* recalculatePlan                                                         *)

RECURSIVE Flatten(_)
Flatten(months) ==
    IF months = << >> THEN << >>
    ELSE Head(months).days \o Flatten(Tail(months))

(* The ideal plan: n goals, compounding from plannedCapital. *)
RECURSIVE PlannedGoals(_, _, _)
PlannedGoals(plannedCapital, rate, n) ==
    IF n <= 0 THEN << >>
    ELSE LET plannedTarget == Compound(plannedCapital, rate)
             plannedProfit == plannedTarget - plannedCapital
         IN  <<[target |-> MathRound(plannedTarget), profit |-> MathRound(plannedProfit)]>>
             \o PlannedGoals(plannedTarget, rate, n - 1)

GoalAt_Extrapolated(plannedGoals, i, actualCapital) ==
    IF i <= Len(plannedGoals) THEN plannedGoals[i]
    ELSE IF plannedGoals = << >> THEN [target |-> actualCapital, profit |-> 0]
    ELSE LET lastGoal == plannedGoals[Len(plannedGoals)]
         IN  [target |-> lastGoal.target + (i - Len(plannedGoals)) * lastGoal.profit,
              profit |-> lastGoal.profit]

(* plannedGoals[i] (1-based), the last goal repeated past the end. *)
GoalAt(plannedGoals, i, actualCapital) ==
    IF i <= Len(plannedGoals) THEN plannedGoals[i]
    ELSE IF plannedGoals = << >> THEN [target |-> actualCapital, profit |-> 0]
    ELSE plannedGoals[Len(plannedGoals)]

(* Variants of the running-capital step with a slip in it: the goal read   *)
(* from the stored day before it is assigned; no ideal progression for an  *)
(* unrecorded day; the sign of the outcome dropped.                        *)
NextActualCapital_StoredTarget(day, target, actualCapital) ==
    IF day.actual # << >>
    THEN actualCapital + (IF day.pnlSign = "+" THEN NumberOr0(day.actual)
                          ELSE -NumberOr0(day.actual))
    ELSE day.target

NextActualCapital_NoProgression(day, target, actualCapital) ==
    IF day.actual # << >>
    THEN actualCapital + (IF day.pnlSign = "+" THEN NumberOr0(day.actual)
                          ELSE -NumberOr0(day.actual))
    ELSE actualCapital

NextActualCapital_Unsigned(day, target, actualCapital) ==
    IF day.actual # << >> THEN actualCapital + NumberOr0(day.actual) ELSE target

(* The running capital after a day. *)
NextActualCapital(day, target, actualCapital) ==
    IF day.actual # << >>
    THEN LET actualProfit == NumberOr0(day.actual)
             signedProfit == IF day.pnlSign = "+" THEN actualProfit ELSE -actualProfit
         IN  actualCapital + signedProfit
    ELSE target

(* The day rate without its guard. *)
DayRate_Unguarded(target, actualCapital) ==
    Fraction(target - actualCapital, actualCapital)

(* The rate needed for one day. *)
DayRate(target, actualCapital) ==
    IF actualCapital > 0 /\ target > actualCapital
    THEN Fraction(target - actualCapital, actualCapital)
    ELSE <<0, 1>>

(* The variant that builds each day afresh and gives it a new checklist. *)
RECURSIVE ActualPath_FreshRules(_, _, _, _)
ActualPath_FreshRules(allDays, plannedGoals, i, actualCapital) ==
    IF i > Len(allDays) THEN << >>
    ELSE LET day == allDays[i]
             goal == GoalAt(plannedGoals, i, actualCapital)
             newDay == [day EXCEPT !.target = goal.target,
                                   !.profit = goal.profit,
                                   !.capital = MathRound(actualCapital),
                                   !.dailyRate = DayRate(goal.target, actualCapital),
                                   !.rules = DEFAULT_RULES]
         IN  <<newDay>> \o ActualPath_FreshRules(allDays, plannedGoals, i + 1,
                                      NextActualCapital(day, goal.target, actualCapital))

(* The loop over allDays from position i with running capital actualCapital. *)
RECURSIVE ActualPath(_, _, _, _)
ActualPath(allDays, plannedGoals, i, actualCapital) ==
    IF i > Len(allDays) THEN << >>
    ELSE LET day == allDays[i]
             goal == GoalAt(plannedGoals, i, actualCapital)
             newDay == [day EXCEPT !.target = goal.target,
                                   !.profit = goal.profit,
                                   !.capital = MathRound(actualCapital),
                                   !.dailyRate = DayRate(goal.target, actualCapital)]
         IN  <<newDay>> \o ActualPath(allDays, plannedGoals, i + 1,
                                      NextActualCapital(day, goal.target, actualCapital))

(* The flat days put back into the month groups of months. *)
RECURSIVE Regroup(_, _)
Regroup(months, flat) ==
    IF months = << >> THEN << >>
    ELSE LET n == Len(Head(months).days)
         IN  <<[Head(months) EXCEPT !.days = SubSeq(flat, 1, n)]>>
             \o Regroup(Tail(months), SubSeq(flat, n + 1, Len(flat)))

(* fullData.tenure > 0 ? fullData.tenure : DEFAULT_TENURE_DAYS; a missing   *)
(* field reads as undefined, and undefined > 0 is false.                   *)
ValidTenure(fullData) ==
    IF "tenure" \in DOMAIN fullData /\ fullData.tenure > 0 THEN fullData.tenure
    ELSE DEFAULT_TENURE_DAYS

ValidInitialCapital(fullData) ==
    IF fullData.initialCapital > 0 THEN fullData.initialCapital
    ELSE DEFAULT_INITIAL_CAPITAL * Cents

(* The target validated against the capital as given, not as sanitized. *)
ValidFinalTarget_RawCapital(fullData) ==
    IF fullData.finalTarget > fullData.initialCapital THEN fullData.finalTarget
    ELSE fullData.initialCapital * 2

ValidFinalTarget(fullData) ==
    IF fullData.finalTarget > ValidInitialCapital(fullData) THEN fullData.finalTarget
    ELSE ValidInitialCapital(fullData) * 2

InitialDailyRate(fullData) ==
    PowRate(ValidInitialCapital(fullData), ValidFinalTarget(fullData), ValidTenure(fullData))

recalculatePlan(fullData) ==
    LET validInitialCapital == ValidInitialCapital(fullData)
        plannedGoals == PlannedGoals(validInitialCapital, InitialDailyRate(fullData),
                                     ValidTenure(fullData))
    IN  Regroup(fullData.months,
                ActualPath(Flatten(fullData.months), plannedGoals, 1, validInitialCapital))

----------------------------------------------------------------------------
(* Bounds and inputs of the plan engine                                    *)

MaxDays == 3

(* Amounts typed into the P/L field, in hundredths; << >> is the empty field. *)
Outcomes == {<< >>, <<30>>, <<29970>>}

(* Configurations: valid ones, a target below the capital, and an all-zero one. *)
PlanConfigs ==
    { [initialCapital |-> 100 * Cents, finalTarget |-> 400 * Cents, tenure |-> 2],
      [initialCapital |-> 100 * Cents, finalTarget |-> 50 * Cents, tenure |-> 1],
      [initialCapital |-> 300 * Cents, finalTarget |-> 1000 * Cents, tenure |-> 3],
      [initialCapital |-> 0, finalTarget |-> 0, tenure |-> 0] }

(* Calendar lengths tried with a configuration (the fallback tenure makes  *)
(* the all-zero configuration costly to evaluate, so it gets one day).     *)
CalendarLengths(config) == IF config.tenure > 0 THEN 1..MaxDays ELSE {1}

(* Dates.  A Date object is an instant, counted here in hours from         *)
(* 2025-11-17T00:00:00.000Z (a Monday).  getDay and setDate work on the    *)
(* local wall clock, which is timeZone hours ahead of UTC (a zone without  *)
(* daylight-saving changes); toISOString works in UTC.  An ISO date string *)
(* is carried as the number of days from 2025-11-17.                       *)

(* new Date("2025-11-17T00:00:00.000Z") *)
AnchorDate == 0

(* Date.prototype.getDay: 0 is Sunday, 6 is Saturday.  The local day of    *)
(* the anchor instant in UTC is a Monday, 1 (a week is added before the    *)
(* remainder is taken, the local clock being up to a day behind).          *)
getDay(date, timeZone) == (1 + 7 + (date + timeZone) \div 24) % 7

(* date.setDate(date.getDate() + n) *)
AddDays(date, n) == date + 24 * n

(* date.toISOString().split('T')[0] *)
ISODate(date) == date \div 24

RECURSIVE SkipWeekend(_, _)
SkipWeekend(nextDay, timeZone) ==
    IF getDay(nextDay, timeZone) = 0 \/ getDay(nextDay, timeZone) = 6
    THEN SkipWeekend(AddDays(nextDay, 1), timeZone)
    ELSE nextDay

getNextTradingDay(date, timeZone) == SkipWeekend(AddDays(date, 1), timeZone)

(* The fixed start date, moved to Monday when it is on a weekend. *)
StartDate(timeZone) ==
    IF getDay(AnchorDate, timeZone) = 6 THEN AddDays(AnchorDate, 2)
    ELSE IF getDay(AnchorDate, timeZone) = 0 THEN AddDays(AnchorDate, 1)
    ELSE AnchorDate

getTodayDateString(timeZone) == ISODate(StartDate(timeZone))

(* oldDaysMap.get(dateStr): << >> when no prior day has the date, else the *)
(* last prior day that has it.                                             *)
ExistingDayData(oldDays, dateStr) ==
    LET found == {i \in 1..Len(oldDays) : oldDays[i].date = dateStr}
    IN  IF found = {} THEN << >>
        ELSE <<oldDays[CHOOSE i \in found : \A j \in found : j <= i]>>

(* The variant that forgets the rules checklist of the prior day. *)
NewDay_DefaultRules(dayCounter, dateStr, existingDayData) ==
    LET old == existingDayData # << >>
    IN  [day |-> dayCounter + 1, date |-> dateStr,
         capital |-> 0, target |-> 0, profit |-> 0, dailyRate |-> <<0, 1>>,
         achieved |-> IF old THEN existingDayData[1].achieved ELSE FALSE,
         pnlSign |-> IF old /\ existingDayData[1].pnlSign # "" THEN existingDayData[1].pnlSign
                     ELSE "+",
         actual |-> IF old THEN existingDayData[1].actual ELSE << >>,
         winningTrades |-> IF old THEN existingDayData[1].winningTrades ELSE "",
         losingTrades |-> IF old THEN existingDayData[1].losingTrades ELSE "",
         logic |-> IF old THEN existingDayData[1].logic ELSE "",
         rules |-> DEFAULT_RULES]

(* The day generatePlanStructure pushes: existingDayData?.field || default *)
(* (a string field is << >> or "" when empty, and then the default is the  *)
(* same empty value).                                                      *)
NewDay(dayCounter, dateStr, existingDayData) ==
    LET old == existingDayData # << >>
    IN  [day |-> dayCounter + 1, date |-> dateStr,
         capital |-> 0, target |-> 0, profit |-> 0, dailyRate |-> <<0, 1>>,
         achieved |-> IF old THEN existingDayData[1].achieved ELSE FALSE,
         pnlSign |-> IF old /\ existingDayData[1].pnlSign # "" THEN existingDayData[1].pnlSign
                     ELSE "+",
         actual |-> IF old THEN existingDayData[1].actual ELSE << >>,
         winningTrades |-> IF old THEN existingDayData[1].winningTrades ELSE "",
         losingTrades |-> IF old THEN existingDayData[1].losingTrades ELSE "",
         logic |-> IF old THEN existingDayData[1].logic ELSE "",
         rules |-> IF old THEN existingDayData[1].rules ELSE DEFAULT_RULES]

(* The loop of generatePlanStructure from dayCounter on, as a flat list. *)
RECURSIVE NewDays(_, _, _, _, _)
NewDays(dayCounter, tenure, currentDate, oldDays, timeZone) ==
    IF dayCounter >= tenure THEN << >>
    ELSE <<NewDay(dayCounter, ISODate(currentDate),
                  ExistingDayData(oldDays, ISODate(currentDate)))>>
         \o NewDays(dayCounter + 1, tenure, getNextTradingDay(currentDate, timeZone),
                    oldDays, timeZone)

RECURSIVE NewMonths_ByTheCalendar(_, _)
NewMonths_ByTheCalendar(days, monthIndex) ==
    IF days = << >> THEN << >>
    ELSE LET n == IF Len(days) < TRADING_DAYS_PER_MONTH - 1 THEN Len(days)
                  ELSE TRADING_DAYS_PER_MONTH - 1
         IN  <<[id |-> monthIndex + 1, days |-> SubSeq(days, 1, n)]>>
             \o NewMonths_ByTheCalendar(SubSeq(days, n + 1, Len(days)), monthIndex + 1)

(* months[Math.floor(dayCounter / TRADING_DAYS_PER_MONTH)]: the days in    *)
(* groups of TRADING_DAYS_PER_MONTH (the month's display name is left      *)
(* out).                                                                   *)
RECURSIVE NewMonths(_, _)
NewMonths(days, monthIndex) ==
    IF days = << >> THEN << >>
    ELSE LET n == IF Len(days) < TRADING_DAYS_PER_MONTH THEN Len(days)
                  ELSE TRADING_DAYS_PER_MONTH
         IN  <<[id |-> monthIndex + 1, days |-> SubSeq(days, 1, n)]>>
             \o NewMonths(SubSeq(days, n + 1, Len(days)), monthIndex + 1)

(* generatePlanStructure(tenure, oldMonths), run in a zone timeZone hours  *)
(* ahead of UTC.                                                           *)
generatePlanStructure(tenure, oldMonths, timeZone) ==
    NewMonths(NewDays(0, tenure, StartDate(timeZone), Flatten(oldMonths), timeZone), 0)

(* The temporary document of a new journal: the configuration and an empty *)
(* calendar of nDays days, not yet recalculated.                           *)
Document(config, nDays) ==
    [initialCapital |-> config.initialCapital, finalTarget |-> config.finalTarget,
     tenure |-> config.tenure, months |-> generatePlanStructure(nDays, << >>, 0),
     hiddenSymbols |-> {}]

----------------------------------------------------------------------------
(* Journal handlers                                                        *)

(* The debounce of updateFirestore, 1000 ms, in half seconds. *)
QuietPeriod == 2

updateFirestore_FirstWins(newData) ==
    /\ firestoreTimer' = IF firestoreTimer = << >> THEN <<newData>> ELSE firestoreTimer
    /\ delay' = IF firestoreTimer = << >> THEN QuietPeriod ELSE delay
    /\ UNCHANGED <<saved, snapshots>>

(* updateFirestore: clear the debounce timer and arm it again with         *)
(* newData; nothing is written yet.                                        *)
updateFirestore(newData) ==
    /\ firestoreTimer' = <<newData>>
    /\ delay' = QuietPeriod
    /\ UNCHANGED <<saved, snapshots>>

SignedProfit(sign, value) ==
    IF sign = "+" THEN NumberOr0(value) ELSE -NumberOr0(value)

handleProfitInput(monthIndex, dayIndex, value) ==
    LET day == data.months[monthIndex].days[dayIndex]
        edited == [day EXCEPT !.actual = value,
                              !.achieved = SignedProfit(day.pnlSign, value) >= day.profit]
        newData == [data EXCEPT !.months[monthIndex].days[dayIndex] = edited]
        recalculated == [newData EXCEPT !.months = recalculatePlan(newData)]
    IN  /\ data' = recalculated
        /\ updateFirestore(data')
        /\ UNCHANGED traderVars

handleSignChange(monthIndex, dayIndex, sign) ==
    LET day == data.months[monthIndex].days[dayIndex]
        edited == [day EXCEPT !.pnlSign = sign,
                              !.achieved = SignedProfit(sign, day.actual) >= day.profit]
        newData == [data EXCEPT !.months[monthIndex].days[dayIndex] = edited]
        recalculated == [newData EXCEPT !.months = recalculatePlan(newData)]
    IN  /\ data' = recalculated
        /\ updateFirestore(data')
        /\ UNCHANGED traderVars

(* parseInt(text, 10) of a field's text, a sequence of characters: an     *)
(* optional sign, then the longest run of digits; << >> stands for NaN.    *)
Digits == <<"0", "1", "2", "3", "4", "5", "6", "7", "8", "9">>

IsDigit(char) == \E d \in 1..Len(Digits) : Digits[d] = char

DigitValue(char) == (CHOOSE d \in 1..Len(Digits) : Digits[d] = char) - 1

RECURSIVE ParseDigits(_, _)
ParseDigits(text, value) ==
    IF text = << >> \/ ~IsDigit(Head(text)) THEN value
    ELSE ParseDigits(Tail(text), 10 * value + DigitValue(Head(text)))

parseInt(text) ==
    LET negative == text # << >> /\ Head(text) = "-"
        unsigned == IF text # << >> /\ Head(text) \in {"-", "+"} THEN Tail(text) ELSE text
    IN  IF unsigned = << >> \/ ~IsDigit(Head(unsigned)) THEN << >>
        ELSE <<IF negative THEN -ParseDigits(unsigned, 0) ELSE ParseDigits(unsigned, 0)>>

(* parseInt(text, 10) || fallback *)
ParseIntOr(text, fallback) ==
    IF parseInt(text) = << >> \/ parseInt(text)[1] = 0 THEN fallback ELSE parseInt(text)[1]

(* updatedData of handleUpdateTargets: the document prevData with the      *)
(* configuration parsed from the three settings fields, its calendar       *)
(* rebuilt in a zone timeZone hours ahead of UTC and recalculated.         *)
updatedData(prevData, inputCapital, inputTarget, inputTenure, timeZone) ==
    LET newInitialCapital == ParseIntOr(inputCapital, DEFAULT_INITIAL_CAPITAL)
        newFinalTarget == ParseIntOr(inputTarget, DEFAULT_FINAL_TARGET)
        newTenure == ParseIntOr(inputTenure, DEFAULT_TENURE_DAYS)
        newMonths == generatePlanStructure(newTenure, prevData.months, timeZone)
        updated == [prevData EXCEPT !.initialCapital = newInitialCapital * Cents,
                                    !.finalTarget = newFinalTarget * Cents,
                                    !.tenure = newTenure,
                                    !.months = newMonths]
    IN  [updated EXCEPT !.months = recalculatePlan(updated)]

(* The SET & RECALCULATE button, pressed with the three settings fields    *)
(* holding the given texts, in a zone timeZone hours ahead of UTC.         *)
handleUpdateTargets(inputCapital, inputTarget, inputTenure, timeZone) ==
    /\ data' = updatedData(data, inputCapital, inputTarget, inputTenure, timeZone)
    /\ updateFirestore(data')
    /\ UNCHANGED traderVars

(* Number.prototype.toString of a whole number: the text a settings field  *)
(* is initialised with.                                                    *)
RECURSIVE DigitsOf(_)
DigitsOf(n) ==
    IF n < 10 THEN <<Digits[n + 1]>>
    ELSE Append(DigitsOf(n \div 10), Digits[(n % 10) + 1])

toString(n) == IF n < 0 THEN <<"-">> \o DigitsOf(-n) ELSE DigitsOf(n)

(* handleJournalChange: days[dayIndex][field] = value, saved without a     *)
(* recalculation.                                                          *)
handleJournalChange(monthIndex, dayIndex, field, value) ==
    /\ data' = [data EXCEPT !.months[monthIndex].days[dayIndex][field] = value]
    /\ updateFirestore(data')
    /\ UNCHANGED traderVars

(* handleRuleChange (every day of the model carries its rules). *)
handleRuleChange(monthIndex, dayIndex, ruleIndex, isChecked) ==
    /\ data' = [data EXCEPT
                    !.months[monthIndex].days[dayIndex].rules[ruleIndex].checked = isChecked]
    /\ updateFirestore(data')
    /\ UNCHANGED traderVars

(* handleSymbolVisibilityChange: toggle symbolName in hiddenSymbols (a     *)
(* list without repetitions, carried as a set).                            *)
handleSymbolVisibilityChange(symbolName) ==
    LET currentHidden == data.hiddenSymbols
        newHiddenSymbols == IF symbolName \in currentHidden
                            THEN currentHidden \ {symbolName}
                            ELSE currentHidden \cup {symbolName}
    IN  /\ data' = [data EXCEPT !.hiddenSymbols = newHiddenSymbols]
        /\ updateFirestore(data')
        /\ UNCHANGED traderVars

(* Half a second passes while the debounce timer runs. *)
HalfSecond ==
    /\ firestoreTimer # << >>
    /\ delay > 0
    /\ delay' = delay - 1
    /\ UNCHANGED <<data, firestoreTimer, saved, snapshots>>
    /\ UNCHANGED traderVars

(* The timer's callback, once the timer is due:                            *)
(* setDoc(dataRef.current, newData, { merge: true }), while fewer than     *)
(* maxSaves documents have been written.                                   *)
FirestoreWrite(maxSaves) ==
    /\ firestoreTimer # << >>
    /\ delay = 0
    /\ Len(saved) < maxSaves
    /\ saved' = Append(saved, firestoreTimer[1])
    /\ firestoreTimer' = << >>
    /\ UNCHANGED <<data, delay, snapshots>>
    /\ UNCHANGED traderVars

(* No save is pending and none has been made. *)
InitFirestore ==
    /\ firestoreTimer = << >>
    /\ delay = 0
    /\ saved = << >>
    /\ snapshots = 0

(* recalculatePlan applied to the document as it stands. *)
Recalculate ==
    /\ data' = [data EXCEPT !.months = recalculatePlan(data)]
    /\ UNCHANGED firestoreVars
    /\ UNCHANGED traderVars

----------------------------------------------------------------------------
(* The demo trader                                                         *)
(*                                                                         *)
(* Prices are integers in points and lots are in hundredths of a lot.  The *)
(* catalogue is carried on a coarse grid: one pip is 20 points for every   *)
(* instrument, `spread` is in tenths of a pip, and `base` is the           *)
(* catalogue's base price with the decimal point dropped, so that          *)
(* price * lots * LOT_SIZE stays a 32-bit integer.  Trading amounts        *)
(* (position value, margin, PnL) are integers in the unit point * lot/100; *)
(* UnitsPerCent of them make one hundredth of the plan's currency.         *)

ALL_SYMBOLS ==
    << [name |-> "EUR/USD", base |-> 1085,  pips |-> 20, spread |-> 12],
       [name |-> "GBP/USD", base |-> 1268,  pips |-> 20, spread |-> 15],
       [name |-> "USD/JPY", base |-> 1572,  pips |-> 20, spread |-> 14],
       [name |-> "XAU/USD", base |-> 2350,  pips |-> 20, spread |-> 250],
       [name |-> "BTC/USD", base |-> 65000, pips |-> 20, spread |-> 500],
       [name |-> "ETH/USD", base |-> 3500,  pips |-> 20, spread |-> 25] >>

SymbolNames == {ALL_SYMBOLS[i].name : i \in 1..Len(ALL_SYMBOLS)}

(* ALL_SYMBOLS.find(s => s.name === symbolName) *)
SymbolInfo(symbolName) ==
    ALL_SYMBOLS[CHOOSE i \in 1..Len(ALL_SYMBOLS) : ALL_SYMBOLS[i].name = symbolName]

(* String.prototype.includes on the catalogue's names. *)
Includes(symbolName, part) ==
    <<symbolName, part>> \in {<<"BTC/USD", "BTC">>, <<"ETH/USD", "ETH">>}

ContractSize(symbolName) ==
    IF Includes(symbolName, "BTC") \/ Includes(symbolName, "ETH") THEN 1 ELSE LOT_SIZE

UnitsPerCent == LOT_SIZE

(* symbol.spread * symbol.pips, in points *)
SpreadOf(symbol) == (symbol.spread * symbol.pips) \div 10

(* useSimulatedPrices: the initial state of `prices`. *)
initialPrices ==
    [symbolName \in SymbolNames |->
        LET symbol == SymbolInfo(symbolName)
            spread == SpreadOf(symbol)
            mid == symbol.base
        IN  [bid |-> mid - spread \div 2, ask |-> mid + spread \div 2]]

(* prices[symbolName]: << >> when the object has no such key. *)
PriceOf(currentPrices, symbolName) ==
    IF symbolName \in DOMAIN currentPrices THEN <<currentPrices[symbolName]>> ELSE << >>

(* JavaScript truthiness of a number-or-null value. *)
Truthy(x) == x # << >> /\ x[1] # 0

(* Number.prototype.toFixed(2) of a non-negative trading amount, in        *)
(* hundredths.                                                             *)
ToFixed2(x) == (x + UnitsPerCent \div 2) \div UnitsPerCent

(* The `today` memo of JournalAppComponent: the plan's first day carries   *)
(* getTodayDateString(), the date the calendar is anchored at.             *)
IsToday(day) == day.date = getTodayDateString(0)

isTodayFound(doc) ==
    \E m \in 1..Len(doc.months) : \E d \in 1..Len(doc.months[m].days) :
        IsToday(doc.months[m].days[d])

currentMonthIndex(doc) ==
    CHOOSE m \in 1..Len(doc.months) :
        \E d \in 1..Len(doc.months[m].days) : IsToday(doc.months[m].days[d])

currentDayIndex(doc) ==
    CHOOSE d \in 1..Len(doc.months[currentMonthIndex(doc)].days) :
        IsToday(doc.months[currentMonthIndex(doc)].days[d])

tradingCapital_Equity(doc) ==
    LET day == doc.months[currentMonthIndex(doc)].days[currentDayIndex(doc)]
    IN  IF isTodayFound(doc) THEN day.capital + SignedProfit(day.pnlSign, day.actual)
        ELSE doc.months[1].days[1].capital

tradingCapital(doc) ==
    IF isTodayFound(doc)
    THEN doc.months[currentMonthIndex(doc)].days[currentDayIndex(doc)].capital
    ELSE doc.months[1].days[1].capital

(* handleTradeClose's setData updater: fold pnl into today's outcome.      *)
handleTradeClose(prevData, pnl) ==
    LET m == currentMonthIndex(prevData)
        d == currentDayIndex(prevData)
        day == prevData.months[m].days[d]
        currentPnl == NumberOr0(day.actual)
        signedCurrentPnl == IF day.pnlSign = "+" THEN currentPnl ELSE -currentPnl
        newTotalPnl == signedCurrentPnl * UnitsPerCent + pnl
        edited == [day EXCEPT !.pnlSign = IF newTotalPnl >= 0 THEN "+" ELSE "-",
                              !.actual = <<ToFixed2(Abs(newTotalPnl))>>,
                              !.achieved = newTotalPnl \div UnitsPerCent >= day.profit]
        newData == [prevData EXCEPT !.months[m].days[d] = edited]
    IN  [newData EXCEPT !.months = recalculatePlan(newData)]

RealizedPnl_Unsided(pos, exitPrice) ==
    (exitPrice - pos.entryPrice) * pos.lots * ContractSize(pos.symbol)

RealizedPnl(pos, exitPrice) ==
    (IF pos.type = "BUY" THEN exitPrice - pos.entryPrice ELSE pos.entryPrice - exitPrice)
        * pos.lots * ContractSize(pos.symbol)

Notice(text, isProfit) == <<[text |-> text, isProfit |-> isProfit]>>

handleClosePosition_OldestFirst(L, pos, closePrice, reason, currentPrices) ==
    LET currentSymbolPrice == PriceOf(currentPrices, pos.symbol)
    IN  IF currentSymbolPrice = << >> /\ ~Truthy(closePrice)
        THEN [L EXCEPT !.message = Notice("Market prices unavailable, cannot close.", FALSE)]
        ELSE
        LET exitPrice == IF Truthy(closePrice) THEN closePrice[1]
                         ELSE IF pos.type = "BUY" THEN currentSymbolPrice[1].bid
                         ELSE currentSymbolPrice[1].ask
            realizedPnl == RealizedPnl(pos, exitPrice)
            newHistoryTrade ==
                [id |-> pos.id, symbol |-> pos.symbol, type |-> pos.type,
                 lots |-> pos.lots, leverage |-> pos.leverage,
                 entryPrice |-> pos.entryPrice, stopLoss |-> pos.stopLoss,
                 takeProfit |-> pos.takeProfit,
                 exitPrice |-> exitPrice, pnl |-> realizedPnl, reason |-> reason]
            newData == IF isTodayFound(L.data) THEN handleTradeClose(L.data, realizedPnl)
                       ELSE L.data
        IN  [positions |-> SelectSeq(L.positions, LAMBDA p : p.id # pos.id),
             tradeHistory |-> L.tradeHistory \o <<newHistoryTrade>>,
             data |-> newData,
             firestoreTimer |-> IF isTodayFound(L.data) THEN <<newData>> ELSE L.firestoreTimer,
             delay |-> IF isTodayFound(L.data) THEN QuietPeriod ELSE L.delay,
             message |-> Notice("Closed", realizedPnl >= 0)]

(* handleClosePosition on the ledger L = [positions, tradeHistory, data,   *)
(* firestoreTimer, delay, message]; currentPrices is pricesRef.current.    *)
(* Of the                                                                  *)
(* position, the history record keeps what identifies and prices the       *)
(* trade, not the last valuation the position carried.  The handler is     *)
(* only ever given a position object and runs after the effect that sets   *)
(* pricesRef.current, so its first two early returns (!pos,                *)
(* !currentPrices) have no case here.                                      *)
handleClosePosition(L, pos, closePrice, reason, currentPrices) ==
    LET currentSymbolPrice == PriceOf(currentPrices, pos.symbol)
    IN  IF currentSymbolPrice = << >> /\ ~Truthy(closePrice)
        THEN [L EXCEPT !.message = Notice("Market prices unavailable, cannot close.", FALSE)]
        ELSE
        LET exitPrice == IF Truthy(closePrice) THEN closePrice[1]
                         ELSE IF pos.type = "BUY" THEN currentSymbolPrice[1].bid
                         ELSE currentSymbolPrice[1].ask
            realizedPnl == RealizedPnl(pos, exitPrice)
            newHistoryTrade ==
                [id |-> pos.id, symbol |-> pos.symbol, type |-> pos.type,
                 lots |-> pos.lots, leverage |-> pos.leverage,
                 entryPrice |-> pos.entryPrice, stopLoss |-> pos.stopLoss,
                 takeProfit |-> pos.takeProfit,
                 exitPrice |-> exitPrice, pnl |-> realizedPnl, reason |-> reason]
            newData == IF isTodayFound(L.data) THEN handleTradeClose(L.data, realizedPnl)
                       ELSE L.data
        IN  [positions |-> SelectSeq(L.positions, LAMBDA p : p.id # pos.id),
             tradeHistory |-> <<newHistoryTrade>> \o L.tradeHistory,
             data |-> newData,
             firestoreTimer |-> IF isTodayFound(L.data) THEN <<newData>> ELSE L.firestoreTimer,
             delay |-> IF isTodayFound(L.data) THEN QuietPeriod ELSE L.delay,
             message |-> Notice("Closed", realizedPnl >= 0)]

NoTrigger == [shouldClose |-> FALSE, closePrice |-> 0, reason |-> ""]

StopLossTrigger_ShortOnly(pos, bid, ask) ==
    IF Truthy(pos.stopLoss) /\ pos.type = "SELL" /\ ask >= pos.stopLoss[1]
    THEN [shouldClose |-> TRUE, closePrice |-> ask, reason |-> "Stop Loss Hit"]
    ELSE NoTrigger

(* checkPriceTriggers: the stop-loss test of one position. *)
StopLossTrigger(pos, bid, ask) ==
    IF Truthy(pos.stopLoss) /\ pos.type = "BUY" /\ bid <= pos.stopLoss[1]
    THEN [shouldClose |-> TRUE, closePrice |-> bid, reason |-> "Stop Loss Hit"]
    ELSE IF Truthy(pos.stopLoss) /\ pos.type = "SELL" /\ ask >= pos.stopLoss[1]
    THEN [shouldClose |-> TRUE, closePrice |-> ask, reason |-> "Stop Loss Hit"]
    ELSE NoTrigger

(* checkPriceTriggers: the take-profit test of one position. *)
TakeProfitTrigger(pos, bid, ask) ==
    IF Truthy(pos.takeProfit) /\ pos.type = "BUY" /\ bid >= pos.takeProfit[1]
    THEN [shouldClose |-> TRUE, closePrice |-> bid, reason |-> "Take Profit Hit"]
    ELSE IF Truthy(pos.takeProfit) /\ pos.type = "SELL" /\ ask <= pos.takeProfit[1]
    THEN [shouldClose |-> TRUE, closePrice |-> ask, reason |-> "Take Profit Hit"]
    ELSE NoTrigger

(* checkPriceTriggers: the verdict on one position of the ticked symbol. *)
Trigger(pos, bid, ask) ==
    IF StopLossTrigger(pos, bid, ask).shouldClose
    THEN StopLossTrigger(pos, bid, ask)
    ELSE TakeProfitTrigger(pos, bid, ask)

(* positionsToClose.forEach(p => handleClosePosition(p.pos, p.closePrice, p.reason)) *)
RECURSIVE CloseAll(_, _, _, _, _)
CloseAll(L, positionsToClose, bid, ask, currentPrices) ==
    IF positionsToClose = << >> THEN L
    ELSE LET pos == Head(positionsToClose)
             t == Trigger(pos, bid, ask)
         IN  CloseAll(handleClosePosition(L, pos, <<t.closePrice>>, t.reason, currentPrices),
                      Tail(positionsToClose), bid, ask, currentPrices)

(* checkPriceTriggers(symbolName, bid, ask): the setPositions updater and  *)
(* the closes it starts.                                                   *)
checkPriceTriggers(L, symbolName, bid, ask, currentPrices) ==
    LET Closes(pos) == pos.symbol = symbolName /\ Trigger(pos, bid, ask).shouldClose
        positionsToClose == SelectSeq(L.positions, Closes)
        updatedPositions == SelectSeq(L.positions, LAMBDA pos : ~Closes(pos))
    IN  CloseAll([L EXCEPT !.positions = updatedPositions],
                 positionsToClose, bid, ask, currentPrices)

NewQuote_FullSpread(symbolName, move) ==
    LET symbolInfo == SymbolInfo(symbolName)
        oldPrice == initialPrices[symbolName]
        spread == SpreadOf(symbolInfo)
        newMid == oldPrice.bid + spread \div 2 + move
    IN  [bid |-> newMid - spread, ask |-> newMid + spread]

NewQuote_FromPrevious(symbolName, move) ==
    LET symbolInfo == SymbolInfo(symbolName)
        oldPrice == prices[symbolName]
        spread == SpreadOf(symbolInfo)
        newMid == oldPrice.bid + spread \div 2 + move
    IN  [bid |-> newMid - spread \div 2, ask |-> newMid + spread \div 2]

(* One quote of the feed.  The interval's callback reads the `prices` of   *)
(* the render that created it, and the effect is never re-created          *)
(* (dependency [symbols.length]): oldPrice is always the initial quote.    *)
NewQuote(symbolName, move) ==
    LET symbolInfo == SymbolInfo(symbolName)
        oldPrice == initialPrices[symbolName]
        spread == SpreadOf(symbolInfo)
        newMid == oldPrice.bid + spread \div 2 + move
    IN  [bid |-> newMid - spread \div 2, ask |-> newMid + spread \div 2]

(* symbolsToUpdate.forEach: quote and check each instrument in turn. *)
RECURSIVE TickFrom(_, _, _, _)
TickFrom(L, i, newPrices, currentPrices) ==
    IF i > Len(ALL_SYMBOLS) THEN L
    ELSE LET symbolName == ALL_SYMBOLS[i].name
         IN  TickFrom(checkPriceTriggers(L, symbolName, newPrices[symbolName].bid,
                                         newPrices[symbolName].ask, currentPrices),
                      i + 1, newPrices, currentPrices)

Ledger ==
    [positions |-> positions, tradeHistory |-> tradeHistory, data |-> data,
     firestoreTimer |-> firestoreTimer, delay |-> delay, message |-> message]

SetLedger(L) ==
    /\ positions' = L.positions
    /\ tradeHistory' = L.tradeHistory
    /\ data' = L.data
    /\ firestoreTimer' = L.firestoreTimer
    /\ delay' = L.delay
    /\ UNCHANGED <<saved, snapshots>>
    /\ message' = L.message

(* What a render hands to the handlers: `positions`, `prices` (also        *)
(* pricesRef.current) and the availableCapital prop.                       *)
Snapshot(currentPositions, currentPrices, doc) ==
    [positions |-> currentPositions, prices |-> currentPrices,
     availableCapital |-> tradingCapital(doc)]

PriceTick_AfterTeardown(moves) ==
    LET newPrices == [symbolName \in SymbolNames |-> NewQuote(symbolName, moves[symbolName])]
    IN  /\ SetLedger(TickFrom(Ledger, 1, newPrices, rendered.prices))
        /\ prices' = newPrices
        /\ UNCHANGED <<rendered, mounted, nextId>>

(* The feed's interval callback; the interval is cleared when the hook     *)
(* unmounts.                                                               *)
PriceTick(moves) ==
    LET newPrices == [symbolName \in SymbolNames |-> NewQuote(symbolName, moves[symbolName])]
    IN  /\ mounted
        /\ SetLedger(TickFrom(Ledger, 1, newPrices, rendered.prices))
        /\ prices' = newPrices
        /\ UNCHANGED <<rendered, mounted, nextId>>

UnrealizedPnl(pos, currentPrice) ==
    IF pos.type = "BUY"
    THEN (currentPrice.bid - pos.entryPrice) * pos.lots * ContractSize(pos.symbol)
    ELSE (pos.entryPrice - currentPrice.ask) * pos.lots * ContractSize(pos.symbol)

Revalued(pos, currentPrices) ==
    LET currentPrice == PriceOf(currentPrices, pos.symbol)
    IN  IF currentPrice = << >> THEN pos
        ELSE [pos EXCEPT !.pnl = UnrealizedPnl(pos, currentPrice[1]),
                         !.currentPrice = <<IF pos.type = "BUY" THEN currentPrice[1].bid
                                            ELSE currentPrice[1].ask>>]

(* Live PnL update effect: the interval exists while the rendered          *)
(* positions are not empty and reads the rendered prices.                  *)
LivePnlUpdate ==
    /\ mounted
    /\ Len(rendered.positions) # 0
    /\ positions' = [i \in 1..Len(positions) |-> Revalued(positions[i], rendered.prices)]
    /\ UNCHANGED <<data, firestoreVars, message, prices, tradeHistory, rendered, mounted, nextId>>

RECURSIVE TotalPnl(_)
TotalPnl(openPositions) ==
    IF openPositions = << >> THEN 0
    ELSE Head(openPositions).pnl + TotalPnl(Tail(openPositions))

RECURSIVE MarginUsed(_)
MarginUsed(openPositions) ==
    IF openPositions = << >> THEN 0
    ELSE LET pos == Head(openPositions)
         IN  (pos.entryPrice * pos.lots * ContractSize(pos.symbol)) \div pos.leverage
             + MarginUsed(Tail(openPositions))

FreeMargin(openPositions, availableCapital) ==
    availableCapital * UnitsPerCent + TotalPnl(openPositions) - MarginUsed(openPositions)

MarginRequired(price, lots, leverage, symbolName) ==
    (price * lots * ContractSize(symbolName)) \div leverage

OrderPrice(type, currentPrice) == IF type = "BUY" THEN currentPrice.ask ELSE currentPrice.bid

(* stopLoss ? parseFloat(stopLoss) : null on a form field (<< >> is ''). *)
ParsedLevel(field) == IF field = << >> THEN << >> ELSE <<field[1]>>

Rejects(marginRequired, freeMargin) == marginRequired > freeMargin

(* handleMarketOrder, run with the closure of the last render, and the     *)
(* render that follows the click.                                          *)
handleMarketOrder(type, symbolName, lots, leverage, stopLoss, takeProfit) ==
    /\ mounted
    /\ UNCHANGED mounted
    /\ LET currentPrice == PriceOf(rendered.prices, symbolName)
       IN  IF currentPrice = << >>
           THEN /\ message' = Notice("Market prices not available.", FALSE)
                /\ rendered' = Snapshot(positions, prices, data)
                /\ UNCHANGED <<data, firestoreVars, prices, positions, tradeHistory, nextId>>
           ELSE
           LET price == OrderPrice(type, currentPrice[1])
               marginRequired == MarginRequired(price, lots, leverage, symbolName)
               freeMargin == FreeMargin(rendered.positions, rendered.availableCapital)
               newPosition ==
                   [id |-> nextId + 1, symbol |-> symbolName, type |-> type, lots |-> lots,
                    leverage |-> leverage, entryPrice |-> price,
                    stopLoss |-> ParsedLevel(stopLoss), takeProfit |-> ParsedLevel(takeProfit),
                    pnl |-> 0, currentPrice |-> << >>]
           IN  IF Rejects(marginRequired, freeMargin)
               THEN /\ message' = Notice("Not enough free margin", FALSE)
                    /\ rendered' = Snapshot(positions, prices, data)
                    /\ UNCHANGED <<data, firestoreVars, prices, positions, tradeHistory, nextId>>
               ELSE /\ positions' = Append(rendered.positions, newPosition)
                    /\ nextId' = nextId + 1
                    /\ message' = Notice("Order", TRUE)
                    /\ rendered' = Snapshot(positions', prices, data)
                    /\ UNCHANGED <<data, firestoreVars, prices, tradeHistory>>

(* The X button of a rendered row: handleClosePosition(pos, null, 'Manual  *)
(* Close') on the row's position object, and the render that follows.      *)
ClosePosition(pos) ==
    /\ mounted
    /\ SetLedger(handleClosePosition(Ledger, pos, << >>, "Manual Close", rendered.prices))
    /\ rendered' = Snapshot(positions', prices, data')
    /\ UNCHANGED <<prices, mounted, nextId>>

(* React renders the state the timers have produced. *)
Render ==
    /\ mounted
    /\ rendered # Snapshot(positions, prices, data)
    /\ rendered' = Snapshot(positions, prices, data)
    /\ UNCHANGED <<data, firestoreVars, message, prices, positions, tradeHistory, mounted,
                   nextId>>

(* DemoTrader unmounts (the session ends): the cleanups of the feed's      *)
(* effect and of the valuation effect clear their intervals.               *)
Unmount ==
    /\ mounted
    /\ mounted' = FALSE
    /\ UNCHANGED <<data, firestoreVars, message, prices, positions, tradeHistory, rendered,
                   nextId>>

(* DemoTrader and the feed after mounting. *)
InitDemoTrader ==
    /\ mounted = TRUE
    /\ message = << >>
    /\ prices = initialPrices
    /\ positions = << >>
    /\ tradeHistory = << >>
    /\ rendered = Snapshot(<< >>, initialPrices, data)
    /\ nextId = 0

----------------------------------------------------------------------------
(* The plan engine on its own: any configuration, any calendar length, any *)
(* recorded outcomes.                                                      *)

InitPlan ==
    /\ \E config \in PlanConfigs : \E nDays \in CalendarLengths(config) :
            data = Document(config, nDays)
    /\ InitFirestore
    /\ InitDemoTrader

ProfitInput ==
    \E m \in 1..Len(data.months) : \E d \in 1..Len(data.months[m].days) :
        \E value \in Outcomes : handleProfitInput(m, d, value)

SignChange ==
    \E m \in 1..Len(data.months) : \E d \in 1..Len(data.months[m].days) :
        \E sign \in {"+", "-"} : handleSignChange(m, d, sign)

NextPlan ==
    \/ Recalculate
    \/ ProfitInput
    \/ SignChange

SpecPlan == InitPlan /\ [][NextPlan]_vars

----------------------------------------------------------------------------
(* The demo trader on a fresh journal: orders, closes, the price feed, the *)
(* valuation timer and React's renders, in any interleaving.               *)

MaxOrders == 2

TraderConfig == [initialCapital |-> 100 * Cents, finalTarget |-> 400 * Cents, tenure |-> 2]

(* Levels the user types into the stop-loss and take-profit fields: three  *)
(* pips under the base price, six pips over it.                            *)
Under(symbolName) == <<SymbolInfo(symbolName).base - 3 * SymbolInfo(symbolName).pips>>
Over(symbolName) == <<SymbolInfo(symbolName).base + 6 * SymbolInfo(symbolName).pips>>

OrderForm(symbolName, type, leverage, stopLoss, takeProfit) ==
    [symbolName |-> symbolName, type |-> type, lots |-> 10, leverage |-> leverage,
     stopLoss |-> stopLoss, takeProfit |-> takeProfit]

(* The order forms the user submits: both sides and both contract sizes,   *)
(* light and heavy margin, every kind of trigger, both triggers at once,   *)
(* a level of 0, and an empty level field.                                 *)
OrderForms ==
    { form \in {
      OrderForm("EUR/USD", "BUY",  400, Under("EUR/USD"), Over("EUR/USD")),
      OrderForm("EUR/USD", "BUY",  400, Over("EUR/USD"),  Under("EUR/USD")),
      OrderForm("EUR/USD", "BUY",  1,   << >>,            Under("EUR/USD")),
      OrderForm("EUR/USD", "SELL", 1,   Under("EUR/USD"), Over("EUR/USD")),
      OrderForm("EUR/USD", "SELL", 400, <<0>>,            Under("EUR/USD")),
      OrderForm("BTC/USD", "SELL", 1,   Under("BTC/USD"), << >>) } :
        form.leverage \in LEVERAGE_OPTIONS }

MoveVectors_Wide ==
    { [symbolName \in SymbolNames |-> -11 * SymbolInfo(symbolName).pips],
      [symbolName \in SymbolNames |-> 11 * SymbolInfo(symbolName).pips - 1] }

(* (Math.random() - 0.5) * (symbolInfo.pips * 10) lies in [-5 pips, 5 pips): *)
(* every instrument at the bottom of its range, or every one at the top.   *)
MoveVectors ==
    { [symbolName \in SymbolNames |-> -5 * SymbolInfo(symbolName).pips],
      [symbolName \in SymbolNames |-> 5 * SymbolInfo(symbolName).pips - 1] }

(* A journal as handleUpdateTargets leaves it: generatePlanStructure, then *)
(* recalculatePlan, saved.                                                 *)
InitTrader ==
    /\ data = [Document(TraderConfig, TraderConfig.tenure)
                   EXCEPT !.months = recalculatePlan(Document(TraderConfig, TraderConfig.tenure))]
    /\ InitFirestore
    /\ InitDemoTrader

Tick == \E moves \in MoveVectors : PriceTick(moves)

(* The SELL and BUY buttons, while fewer than maxOrders orders have been   *)
(* accepted.                                                               *)
OrderUpTo(maxOrders) ==
    /\ nextId < maxOrders
    /\ \E form \in OrderForms :
            handleMarketOrder(form.type, form.symbolName, form.lots, form.leverage,
                              form.stopLoss, form.takeProfit)

MarketOrder == OrderUpTo(MaxOrders)

ManualClose == \E i \in 1..Len(rendered.positions) : ClosePosition(rendered.positions[i])

NextTrader ==
    \/ Tick
    \/ LivePnlUpdate
    \/ MarketOrder
    \/ ManualClose
    \/ Render

SpecTrader == InitTrader /\ [][NextTrader]_vars

----------------------------------------------------------------------------
(* The life of single positions: the same trader, with MaxTrades accepted  *)
(* orders.                                                                 *)

MaxTrades == 1

OpenTrade == OrderUpTo(MaxTrades)

NextTrade ==
    \/ Tick
    \/ LivePnlUpdate
    \/ OpenTrade
    \/ ManualClose
    \/ Render

SpecTrade == InitTrader /\ [][NextTrade]_vars

----------------------------------------------------------------------------
(* recalculatePlan on documents with invalid configurations: each field    *)
(* invalid on its own, all of them invalid, and no tenure field at all.    *)

MaxConfigDays == 1

ConfigInputs ==
    { [initialCapital |-> 100 * Cents,  finalTarget |-> 400 * Cents,   tenure |-> 2],
      [initialCapital |-> 100 * Cents,  finalTarget |-> 400 * Cents,   tenure |-> 0],
      [initialCapital |-> 100 * Cents,  finalTarget |-> 400 * Cents,   tenure |-> -3],
      [initialCapital |-> 0,            finalTarget |-> 60000 * Cents, tenure |-> 2],
      [initialCapital |-> -100 * Cents, finalTarget |-> 400 * Cents,   tenure |-> 2],
      [initialCapital |-> 100 * Cents,  finalTarget |-> 100 * Cents,   tenure |-> 2],
      [initialCapital |-> 0,            finalTarget |-> 0,             tenure |-> 0] }

(* A stored document that has no tenure field. *)
WithoutTenure(doc) == [field \in DOMAIN doc \ {"tenure"} |-> doc[field]]

InitConfig ==
    /\ \E config \in ConfigInputs : \E nDays \in 1..MaxConfigDays :
            \/ data = Document(config, nDays)
            \/ config.tenure = 2 /\ data = WithoutTenure(Document(config, nDays))
    /\ InitFirestore
    /\ InitDemoTrader

NextConfig ==
    \/ Recalculate
    \/ ProfitInput
    \/ SignChange

SpecConfig == InitConfig /\ [][NextConfig]_vars

----------------------------------------------------------------------------
(* The journal: a new journal's temporary document or the created one,     *)
(* then SET & RECALCULATE and outcome, sign, free-text, checklist and      *)
(* symbol-visibility edits of the first day's card, in any order.          *)

(* Offsets of the local clock from UTC, in hours. *)
TimeZones == {-5, 0, 9}

(* The texts of the capital, target and tenure fields when SET &           *)
(* RECALCULATE is pressed: numbers, an empty field, a zero, a negative     *)
(* number, a fraction and text that is no number.                          *)
SettingsForm(inputCapital, inputTarget, inputTenure) ==
    [inputCapital |-> inputCapital, inputTarget |-> inputTarget, inputTenure |-> inputTenure]

SettingsForms ==
    { SettingsForm(<<"1", "0", "0">>, <<"4", "0", "0">>, <<"2">>),
      SettingsForm(<<"1", "0", "0">>, <<"4", "0", "0">>, <<"3">>),
      SettingsForm(<<"1", "0", "0">>, <<"4", "0", "0">>, <<"2", ".", "5">>),
      SettingsForm(<<"1", "0", "0">>, <<"4", "0", "0">>, <<"-", "5">>),
      SettingsForm(<< >>, << >>, <<"0">>),
      SettingsForm(<< >>, << >>, <<"a", "b", "c">>),
      SettingsForm(<< >>, << >>, << >>) }

DefaultConfig ==
    [initialCapital |-> DEFAULT_INITIAL_CAPITAL * Cents,
     finalTarget |-> DEFAULT_FINAL_TARGET * Cents, tenure |-> DEFAULT_TENURE_DAYS]

(* onSnapshot on a missing document: the temporary document. *)
tempData == Document(DefaultConfig, DEFAULT_TENURE_DAYS)

(* createNewJournal: the document written, and loaded by the next snapshot. *)
initialData == [tempData EXCEPT !.months = recalculatePlan(tempData)]

InitJournal ==
    /\ data \in {tempData, initialData}
    /\ InitFirestore
    /\ InitDemoTrader

(* The position <<month, day>> of the first day's card. *)
FirstCard ==
    {pos \in {<<m, 1>> : m \in 1..Len(data.months)} : data.months[pos[1]].days[1].day = 1}

UpdateTargets ==
    \E form \in SettingsForms :
        handleUpdateTargets(form.inputCapital, form.inputTarget, form.inputTenure, 0)

EditOutcome ==
    \E pos \in FirstCard : \E value \in Outcomes : handleProfitInput(pos[1], pos[2], value)

EditSign ==
    \E pos \in FirstCard : \E sign \in {"+", "-"} : handleSignChange(pos[1], pos[2], sign)

EditDetails ==
    \E pos \in FirstCard : \E field \in {"winningTrades", "losingTrades", "logic"} :
        handleJournalChange(pos[1], pos[2], field, "1")

EditRule ==
    \E pos \in FirstCard : \E isChecked \in BOOLEAN :
        handleRuleChange(pos[1], pos[2], Len(DEFAULT_RULES), isChecked)

ToggleSymbol == handleSymbolVisibilityChange("XAU/USD")

NextJournal ==
    \/ UpdateTargets
    \/ EditOutcome
    \/ EditSign
    \/ EditDetails
    \/ EditRule
    \/ ToggleSymbol

SpecJournal == InitJournal /\ [][NextJournal]_vars

----------------------------------------------------------------------------
(* Settlement into the plan: small crypto trades beside a forex trade, all *)
(* without trigger levels, with MaxCloses accepted orders.                 *)

MaxCloses == 2

(* The lots field set to `lots` hundredths of a lot. *)
WithLots(form, lots) == [form EXCEPT !.lots = lots]

SettleForms ==
    { WithLots(OrderForm("BTC/USD", "SELL", 1, << >>, << >>), 40),
      OrderForm("EUR/USD", "BUY", 400, << >>, << >>) }

(* The SELL and BUY buttons on one of `forms`, while fewer than maxOrders  *)
(* orders have been accepted.                                              *)
OrderFrom(forms, maxOrders) ==
    /\ nextId < maxOrders
    /\ \E form \in forms :
            handleMarketOrder(form.type, form.symbolName, form.lots, form.leverage,
                              form.stopLoss, form.takeProfit)

SettleOrder == OrderFrom(SettleForms, MaxCloses)

NextSettle ==
    \/ Tick
    \/ LivePnlUpdate
    \/ SettleOrder
    \/ ManualClose
    \/ Render

SpecSettle == InitTrader /\ [][NextSettle]_vars

----------------------------------------------------------------------------
(* The order form: whatever the lots field and the leverage select can     *)
(* hold when SELL or BUY is pressed, with MaxTrades accepted orders.       *)

(* The digits of text up to the first character that is no digit. *)
RECURSIVE LeadingDigits(_)
LeadingDigits(text) ==
    IF text = << >> \/ ~IsDigit(Head(text)) THEN << >>
    ELSE <<Head(text)>> \o LeadingDigits(Tail(text))

(* parseFloat(text) of a decimal text with at most two decimals, in        *)
(* hundredths; << >> stands for NaN.                                       *)
parseFloat(text) ==
    LET negative == text # << >> /\ Head(text) = "-"
        unsigned == IF text # << >> /\ Head(text) \in {"-", "+"} THEN Tail(text) ELSE text
        whole == LeadingDigits(unsigned)
        rest == SubSeq(unsigned, Len(whole) + 1, Len(unsigned))
        decimals == IF rest # << >> /\ Head(rest) = "." THEN LeadingDigits(Tail(rest))
                    ELSE << >>
        hundredths == ParseDigits(whole, 0) * 100
                        + ParseDigits(SubSeq(decimals \o <<"0", "0">>, 1, 2), 0)
    IN  IF whole = << >> /\ decimals = << >> THEN << >>
        ELSE <<IF negative THEN -hundredths ELSE hundredths>>

(* setLots(parseFloat(e.target.value) || 0) *)
LotsOf(text) == IF parseFloat(text) = << >> THEN 0 ELSE parseFloat(text)[1]

(* Texts of the lots field: the default, an emptied field, text that is no *)
(* number, a zero and a negative number.                                   *)
LotsTexts ==
    { <<"0", ".", "0", "1">>, << >>, <<"a">>, <<"0">>, <<"-", "0", ".", "1">> }

(* setLeverage(Number(e.target.value)) on an option of the select. *)
FilledForms ==
    { WithLots(OrderForm("EUR/USD", type, leverage, << >>, << >>), LotsOf(text)) :
        type \in {"BUY", "SELL"}, leverage \in LEVERAGE_OPTIONS, text \in LotsTexts }

FormOrder == OrderFrom(FilledForms, MaxTrades)

NextForm ==
    \/ Tick
    \/ LivePnlUpdate
    \/ FormOrder
    \/ ManualClose
    \/ Render

SpecForm == InitTrader /\ [][NextForm]_vars

----------------------------------------------------------------------------
(* The feed and the symbol list: the trader of SpecTrade, whose user also  *)
(* hides and shows an instrument of the catalogue he never trades.         *)

NextFeed ==
    \/ Tick
    \/ LivePnlUpdate
    \/ OpenTrade
    \/ ManualClose
    \/ Render
    \/ ToggleSymbol

SpecFeed == InitTrader /\ [][NextFeed]_vars

----------------------------------------------------------------------------
(* The trade history: Longs and Shorts on one instrument, opened in turn,  *)
(* that the same tick closes, with MaxCloses accepted orders.              *)

HistoryForms ==
    << OrderForm("EUR/USD", "BUY",  400, Under("EUR/USD"), Over("EUR/USD")),
       OrderForm("EUR/USD", "SELL", 400, << >>,            Under("EUR/USD")) >>

HistoryOrder ==
    /\ nextId < MaxCloses
    /\ LET form == HistoryForms[(nextId % Len(HistoryForms)) + 1]
       IN  handleMarketOrder(form.type, form.symbolName, form.lots, form.leverage,
                             form.stopLoss, form.takeProfit)

NextHistory ==
    \/ Tick
    \/ LivePnlUpdate
    \/ HistoryOrder
    \/ ManualClose
    \/ Render

SpecHistory == InitTrader /\ [][NextHistory]_vars

----------------------------------------------------------------------------
(* Saving the journal: edits of the first day's card, the passing of time  *)
(* and the debounced write, with MaxSaves documents written.               *)

MaxSaves == 1

Save == FirestoreWrite(MaxSaves)

NextSave ==
    \/ EditOutcome
    \/ EditDetails
    \/ HalfSecond
    \/ Save

SpecSave == InitTrader /\ [][NextSave]_vars

----------------------------------------------------------------------------
(* The calendar's month groups: SET & RECALCULATE with tenures around one  *)
(* and two full groups, on a journal whose first card is edited.           *)

TenureTexts == { <<"1">>, <<"2", "2">>, <<"2", "3">>, <<"4", "4">>, <<"4", "5">> }

SetTenure ==
    \E inputTenure \in TenureTexts :
        handleUpdateTargets(<<"1", "0", "0">>, <<"4", "0", "0">>, inputTenure, 0)

NextCalendar ==
    \/ SetTenure
    \/ EditOutcome
    \/ EditDetails

SpecCalendar == InitTrader /\ [][NextCalendar]_vars

----------------------------------------------------------------------------
(* SET & RECALCULATE with the settings fields as they are initialised from *)
(* the document, beside changes of the configuration and outcome, sign,   *)
(* WIN/LOSS and log edits of the first day's card.                         *)

(* The settings fields hold the document's capital, target and tenure. *)
SameTargets(doc) ==
    updatedData(doc, toString(doc.initialCapital \div Cents),
                toString(doc.finalTarget \div Cents), toString(doc.tenure), 0)

Reapply ==
    handleUpdateTargets(toString(data.initialCapital \div Cents),
                        toString(data.finalTarget \div Cents), toString(data.tenure), 0)

NextReapply ==
    \/ Reapply
    \/ UpdateTargets
    \/ EditOutcome
    \/ EditSign
    \/ EditDetails

SpecReapply == InitJournal /\ [][NextReapply]_vars

----------------------------------------------------------------------------
(* The stored document and its listener.  Every setDoc is followed by one  *)
(* call of MainApp's onSnapshot listener with the document written, in the *)
(* order of the writes; setUserData hands it to JournalAppComponent, whose *)
(* effect replaces the in-memory document by it.                           *)

MaxWrites == 2

(* Nothing is pending: no timer runs and every write has been echoed. *)
Quiet == firestoreTimer = << >> /\ snapshots = Len(saved)

onSnapshot ==
    /\ snapshots < Len(saved)
    /\ snapshots' = snapshots + 1
    /\ data' = saved[snapshots + 1]
    /\ UNCHANGED <<firestoreTimer, delay, saved>>
    /\ UNCHANGED traderVars

Write == FirestoreWrite(MaxWrites)

(* An outcome typed into the first day's card. *)
RecordOutcome ==
    \E pos \in FirstCard : \E value \in Outcomes \ {<< >>} :
        handleProfitInput(pos[1], pos[2], value)

(* Edits of the first card, the debounced write and its echo. *)
NextEcho ==
    \/ RecordOutcome
    \/ EditDetails
    \/ HalfSecond
    \/ Write
    \/ onSnapshot

SpecEcho == InitTrader /\ [][NextEcho]_vars

(* PURGE & RESET, confirmed: resetJournalToDefaults writes the default     *)
(* plan at once; window.firestoreTimer is left as it is.                   *)
resetJournalToDefaults ==
    /\ Len(saved) < MaxWrites
    /\ saved' = Append(saved, initialData)
    /\ UNCHANGED <<data, firestoreTimer, delay, snapshots>>
    /\ UNCHANGED traderVars

(* The default plan has been written (no edit of the trader's journal,     *)
(* whose configuration is another, gives that document).                   *)
ResetDone == \E k \in 1..Len(saved) : saved[k] = initialData

(* A session that ends with PURGE & RESET: edits of the first card, then   *)
(* the reset, after which only the timer and the listener run.             *)
NextReset ==
    \/ ~ResetDone /\ RecordOutcome
    \/ ~ResetDone /\ EditDetails
    \/ ~ResetDone /\ resetJournalToDefaults
    \/ HalfSecond
    \/ Write
    \/ onSnapshot

SpecReset == InitTrader /\ [][NextReset]_vars

----------------------------------------------------------------------------
(* The trader's teardown: the trader of SpecTrade, unmounted at any        *)
(* moment.                                                                 *)

NextTeardown ==
    \/ Tick
    \/ LivePnlUpdate
    \/ OpenTrade
    \/ ManualClose
    \/ Render
    \/ Unmount

SpecTeardown == InitTrader /\ [][NextTeardown]_vars

----------------------------------------------------------------------------
(* Properties of recalculatePlan (checked under SpecPlan)                  *)

(* The days recalculatePlan returns for the current document. *)
Recalculated == Flatten(recalculatePlan(data))

HasOutcome(day) == day.actual # << >>

(* The signed outcome s of a day: pnlSign applied to Number(actual) || 0. *)
SignedOutcome(day) == SignedProfit(day.pnlSign, day.actual)

(* The running capital entering day i is a whole number for certain: day i *)
(* is the first day of a whole initial capital or follows an unrecorded    *)
(* day (whose target, a rounded number, becomes the running capital).      *)
WholeRunningCapital(days, i) ==
    IF i = 1 THEN ValidInitialCapital(data) % Cents = 0
    ELSE ~HasOutcome(days[i - 1])

(* C1: recalculatePlan is idempotent: the months it returns, fed back with *)
(* the same configuration, come back identical.                            *)
C1_Idempotent ==
    LET once == recalculatePlan(data)
    IN  recalculatePlan([data EXCEPT !.months = once]) = once

C1_Witness ==
    /\ Len(Flatten(data.months)) >= 2
    /\ \E i \in 1..Len(Flatten(data.months)) : HasOutcome(Flatten(data.months)[i])
    /\ \E i \in 1..Len(Flatten(data.months)) : ~HasOutcome(Flatten(data.months)[i])
    /\ data.months = recalculatePlan(data)

(* C2: after recalculatePlan, a day without a recorded outcome hands its    *)
(* target to the next day as start capital.                                *)
C2_IdealProgression ==
    \A i \in 1..(Len(Recalculated) - 1) :
        ~HasOutcome(Recalculated[i]) => Recalculated[i + 1].capital = Recalculated[i].target

C2_Witness ==
    /\ data.months = recalculatePlan(data)
    /\ \E i \in 1..(Len(Recalculated) - 1) :
           /\ ~HasOutcome(Recalculated[i])
           /\ Recalculated[i].target # Recalculated[i].capital
           /\ Recalculated[i + 1].capital = Recalculated[i].target

(* C3 as stated: after recalculatePlan, a day with a recorded signed        *)
(* outcome s is followed by a day whose capital is round(capital[i] + s).  *)
C3_AsStated ==
    \A i \in 1..(Len(Recalculated) - 1) :
        HasOutcome(Recalculated[i]) =>
            Recalculated[i + 1].capital
                = MathRound(Recalculated[i].capital + SignedOutcome(Recalculated[i]))

(* C3 amended: capital[i+1] is the rounding of the unrounded running       *)
(* capital plus s; it is round(capital[i] + s) when the running capital    *)
(* entering day i is whole, and is always less than one unit away from     *)
(* capital[i] + s.                                                         *)
C3_RecordedOutcome ==
    \A i \in 1..(Len(Recalculated) - 1) :
        HasOutcome(Recalculated[i]) =>
            LET sum == Recalculated[i].capital + SignedOutcome(Recalculated[i])
            IN  /\ Abs(Recalculated[i + 1].capital - sum) < Cents
                /\ WholeRunningCapital(Recalculated, i) =>
                       Recalculated[i + 1].capital = MathRound(sum)

C3_Witness ==
    /\ data.months = recalculatePlan(data)
    /\ \E i \in 2..(Len(Recalculated) - 1) :
           /\ HasOutcome(Recalculated[i]) /\ HasOutcome(Recalculated[i - 1])
           /\ SignedOutcome(Recalculated[i]) % Cents # 0
           /\ Recalculated[i + 1].capital
                  # MathRound(Recalculated[i].capital + SignedOutcome(Recalculated[i]))

(* C4 as stated: every dailyRate is >= 0, and is 0 for every day whose      *)
(* stored capital is at least its target.                                  *)
C4_AsStated ==
    \A i \in 1..Len(Recalculated) :
        /\ Recalculated[i].dailyRate[1] >= 0 /\ Recalculated[i].dailyRate[2] > 0
        /\ Recalculated[i].capital >= Recalculated[i].target =>
               Recalculated[i].dailyRate[1] = 0

(* C4 amended: every dailyRate is >= 0; it is 0 when the stored capital     *)
(* exceeds the target, and when it equals the target with a whole running  *)
(* capital; a stored capital that reaches the target only by rounding      *)
(* leaves a rate of at most 0.5 / (target - 0.5).                          *)
C4_DailyRate ==
    \A i \in 1..Len(Recalculated) :
        LET d == Recalculated[i]
        IN  /\ d.dailyRate[1] >= 0 /\ d.dailyRate[2] > 0
            /\ d.capital > d.target => d.dailyRate[1] = 0
            /\ (d.capital = d.target /\ WholeRunningCapital(Recalculated, i)) =>
                   d.dailyRate[1] = 0
            /\ d.capital >= d.target =>
                   d.dailyRate[1] * (d.target - Cents \div 2) <= (Cents \div 2) * d.dailyRate[2]

C4_Witness ==
    /\ data.months = recalculatePlan(data)
    /\ \E i \in 1..Len(Recalculated) :
           Recalculated[i].capital > Recalculated[i].target /\ Recalculated[i].dailyRate[1] = 0
    /\ \E i \in 1..Len(Recalculated) :
           Recalculated[i].capital = Recalculated[i].target /\ Recalculated[i].dailyRate[1] > 0
    /\ \E i \in 1..Len(Recalculated) :
           Recalculated[i].capital < Recalculated[i].target /\ Recalculated[i].dailyRate[1] > 0

----------------------------------------------------------------------------
(* Properties of the demo trader (checked under SpecTrader and SpecTrade)  *)

Ids(trades) == {trades[i].id : i \in 1..Len(trades)}

(* The history entries a step has added for pos (the history is            *)
(* newest-first, so they are at its head).                                 *)
NewTrades(pos) ==
    {k \in 1..(Len(tradeHistory') - Len(tradeHistory)) : tradeHistory'[k].id = pos.id}

(* The trigger conditions as the specification words them, a level being   *)
(* set when it is not null.                                                *)
StopLossHolds(pos, quote) ==
    /\ pos.stopLoss # << >>
    /\ \/ pos.type = "BUY" /\ quote.bid <= pos.stopLoss[1]
       \/ pos.type = "SELL" /\ quote.ask >= pos.stopLoss[1]

TakeProfitHolds(pos, quote) ==
    /\ pos.takeProfit # << >>
    /\ \/ pos.type = "BUY" /\ quote.bid >= pos.takeProfit[1]
       \/ pos.type = "SELL" /\ quote.ask <= pos.takeProfit[1]

C6_AsStated ==
    /\ \A i, j \in 1..Len(tradeHistory) : i # j => tradeHistory[i].id # tradeHistory[j].id
    /\ Ids(positions) \cap Ids(tradeHistory) = {}

(* C7: for every close, realizedPnl = (exitPrice - entryPrice) * lots *    *)
(* contractSize for a Long and (entryPrice - exitPrice) * lots *           *)
(* contractSize for a Short, contractSize being 1 for BTC/USD and ETH/USD  *)
(* and 100000 for every other catalogue instrument; a Short crypto         *)
(* position entered at 65000 and closed at 64500 realizes 500 * lots.      *)
C7_RealizedPnl ==
    /\ \A k \in 1..Len(tradeHistory) :
        LET trade == tradeHistory[k]
            contractSize == IF trade.symbol \in {"BTC/USD", "ETH/USD"} THEN 1 ELSE 100000
        IN  trade.pnl = IF trade.type = "BUY"
                        THEN (trade.exitPrice - trade.entryPrice) * trade.lots * contractSize
                        ELSE (trade.entryPrice - trade.exitPrice) * trade.lots * contractSize
    /\ \A symbolName \in SymbolNames :
        ContractSize(symbolName) = IF symbolName \in {"BTC/USD", "ETH/USD"} THEN 1 ELSE 100000
    /\ \A form \in OrderForms :
        RealizedPnl([type |-> "SELL", symbol |-> "BTC/USD", lots |-> form.lots,
                     entryPrice |-> 65000], 64500) = 500 * form.lots

(* A Short on a crypto contract closed at a loss. *)
C7_Witness ==
    \E k \in 1..Len(tradeHistory) :
        /\ tradeHistory[k].type = "SELL" /\ tradeHistory[k].symbol = "BTC/USD"
        /\ tradeHistory[k].exitPrice > tradeHistory[k].entryPrice
        /\ tradeHistory[k].pnl < 0

(* C8: on a tick whose bid is at or under the stop-loss S of an open Long, *)
(* the position is closed, once, at that bid with reason StopLoss; on a    *)
(* tick whose bid is over S it is not closed with reason StopLoss.         *)
C8_LongStopLoss ==
    [][Tick =>
        \A i \in 1..Len(positions) :
            LET pos == positions[i]
                bid == prices'[pos.symbol].bid
            IN  (pos.type = "BUY" /\ pos.stopLoss # << >>) =>
                    IF bid <= pos.stopLoss[1]
                    THEN /\ pos.id \notin Ids(positions')
                         /\ Cardinality(NewTrades(pos)) = 1
                         /\ \A k \in NewTrades(pos) :
                                /\ tradeHistory'[k].reason = "Stop Loss Hit"
                                /\ tradeHistory'[k].exitPrice = bid
                    ELSE \A k \in NewTrades(pos) :
                                tradeHistory'[k].reason # "Stop Loss Hit"]_vars

(* A Long that was opened over its stop-loss and closed by it at a bid at  *)
(* or under the level.                                                     *)
C8_Witness ==
    \E k \in 1..Len(tradeHistory) :
        /\ tradeHistory[k].type = "BUY" /\ tradeHistory[k].reason = "Stop Loss Hit"
        /\ tradeHistory[k].stopLoss # << >>
        /\ tradeHistory[k].entryPrice > tradeHistory[k].stopLoss[1]
        /\ tradeHistory[k].exitPrice <= tradeHistory[k].stopLoss[1]

(* C9: on a tick a position is trigger-closed exactly when its stop-loss   *)
(* or its take-profit condition holds for the new quote, and then at the   *)
(* bid for a Long and at the ask for a Short; a position with neither      *)
(* level set is never trigger-closed.  As stated.                          *)
C9_AsStated ==
    [][Tick =>
        \A i \in 1..Len(positions) :
            LET pos == positions[i]
                quote == prices'[pos.symbol]
            IN  /\ NewTrades(pos) # {}
                    <=> (StopLossHolds(pos, quote) \/ TakeProfitHolds(pos, quote))
                /\ \A k \in NewTrades(pos) :
                    tradeHistory'[k].exitPrice =
                        IF pos.type = "BUY" THEN quote.bid ELSE quote.ask]_vars

(* C10: when the stop-loss and the take-profit condition of a position     *)
(* both hold on a tick, the position is closed once, with reason StopLoss, *)
(* never with reason TakeProfit.  As stated.                               *)
C10_AsStated ==
    [][Tick =>
        \A i \in 1..Len(positions) :
            LET pos == positions[i]
                quote == prices'[pos.symbol]
            IN  (StopLossHolds(pos, quote) /\ TakeProfitHolds(pos, quote)) =>
                    /\ Cardinality(NewTrades(pos)) = 1
                    /\ \A k \in NewTrades(pos) : tradeHistory'[k].reason = "Stop Loss Hit"]_vars

(* C11: a successful market order appends exactly one new position to the  *)
(* open positions; its entry price is the latest ask for a Long and the    *)
(* latest bid for a Short, its unrealized PnL is 0 and its margin          *)
(* requirement is entryPrice * lots * contractSize / leverage (0.01 lot of *)
(* EUR/USD at 1:100 and ask 1.0856, i.e. 10856 ten-thousandths, requires   *)
(* 10.856); all previously open positions are unchanged.  As stated, over  *)
(* the ledger's open positions and the feed's latest quotes.               *)
C11_AsStated ==
    [][MarketOrder =>
        (nextId' # nextId =>
            LET order == positions'[Len(positions')]
                quote == prices[order.symbol]
            IN  /\ positions' = Append(positions, order)
                /\ order.id \notin Ids(positions)
                /\ order.entryPrice = IF order.type = "BUY" THEN quote.ask ELSE quote.bid
                /\ order.pnl = 0
                /\ MarginRequired(order.entryPrice, order.lots, order.leverage, order.symbol)
                     = (order.entryPrice * order.lots * ContractSize(order.symbol))
                            \div order.leverage
                /\ MarginRequired(10856, 1, 100, "EUR/USD") = 10856 * 1000)]_vars

(* The active trading day of the plan document. *)
Today == data.months[currentMonthIndex(data)].days[currentDayIndex(data)]

RECURSIVE SumOfPnl(_)
SumOfPnl(trades) ==
    IF trades = << >> THEN 0 ELSE Head(trades).pnl + SumOfPnl(Tail(trades))

(* A trading amount to two decimals, in hundredths. *)
ToTwoDecimals(amount) == IF amount >= 0 THEN ToFixed2(amount) ELSE -ToFixed2(-amount)

(* C12: every realized amount is folded into the active trading day and    *)
(* the whole trajectory is recalculated: after any sequence of closes the  *)
(* active day's signed outcome equals its initial signed outcome (none     *)
(* recorded) plus the sum of the realized PnL of all closed trades, to two *)
(* decimals.  As stated.                                                   *)
C12_AsStated ==
    /\ SignedOutcome(Today) = ToTwoDecimals(SumOfPnl(tradeHistory))
    /\ Flatten(data.months) = Recalculated

(* The feed quotes the whole catalogue from its first render on, and       *)
(* pricesRef.current is the `prices` of a render: neither handler ever     *)
(* finds an instrument without a quote, and neither NoQuote notice is      *)
(* ever raised.                                                            *)
EveryInstrumentQuoted ==
    /\ \A symbolName \in SymbolNames :
            /\ PriceOf(prices, symbolName) # << >>
            /\ PriceOf(rendered.prices, symbolName) # << >>
    /\ \A i \in 1..Len(positions) : positions[i].symbol \in SymbolNames
    /\ message \notin {Notice("Market prices not available.", FALSE),
                       Notice("Market prices unavailable, cannot close.", FALSE)}

----------------------------------------------------------------------------
(* Properties of the plan's configuration and calendar                     *)

(* The fields of a day that recalculatePlan computes, and those it is to   *)
(* leave alone.                                                            *)
FinancialFields == {"capital", "target", "profit", "dailyRate"}

JournalFields ==
    {"achieved", "pnlSign", "actual", "winningTrades", "losingTrades", "logic", "rules",
     "day", "date"}

(* C15: recalculatePlan writes only capital, target, profit and dailyRate: *)
(* for every day achieved, pnlSign, actual, winningTrades, losingTrades,   *)
(* logic, rules, day and date are equal in input and output, and the       *)
(* number and the grouping of the days are the same.                       *)
C15_FrameOfRecalculate ==
    LET newMonths == recalculatePlan(data)
    IN  /\ Len(newMonths) = Len(data.months)
        /\ \A m \in 1..Len(data.months) :
            /\ newMonths[m].id = data.months[m].id
            /\ Len(newMonths[m].days) = Len(data.months[m].days)
            /\ \A d \in 1..Len(data.months[m].days) :
                /\ DOMAIN newMonths[m].days[d] = FinancialFields \cup JournalFields
                /\ \A field \in JournalFields :
                        newMonths[m].days[d][field] = data.months[m].days[d][field]

(* A temporary document whose first card has been filled in, which the     *)
(* recalculation changes.                                                  *)
C15_Witness ==
    /\ data.months # << >>
    /\ Flatten(data.months) # Recalculated
    /\ LET day == data.months[1].days[1]
       IN  /\ day.winningTrades = "1" /\ day.losingTrades = "1" /\ day.logic = "1"
           /\ day.rules[Len(DEFAULT_RULES)].checked

(* C14: recalculatePlan works from sanitized values: a tenure that is      *)
(* missing or <= 0 counts as 66, an initialCapital <= 0 as 50000, a        *)
(* finalTarget <= the sanitized initialCapital as twice the sanitized      *)
(* initialCapital, and valid fields are used as given: the result is the   *)
(* one computed from the document with the sanitized configuration, and    *)
(* the first day starts from the sanitized initialCapital.                 *)
C14_SanitizedConfig ==
    LET tenure == IF "tenure" \notin DOMAIN data THEN 66
                  ELSE IF data.tenure <= 0 THEN 66 ELSE data.tenure
        initialCapital == IF data.initialCapital <= 0 THEN 50000 * Cents
                          ELSE data.initialCapital
        finalTarget == IF data.finalTarget <= initialCapital THEN 2 * initialCapital
                       ELSE data.finalTarget
        sanitized == [initialCapital |-> initialCapital, finalTarget |-> finalTarget,
                      tenure |-> tenure, months |-> data.months]
    IN  /\ Recalculated = Flatten(recalculatePlan(sanitized))
        /\ Recalculated[1].capital = initialCapital
        /\ Len(Recalculated) = Len(Flatten(data.months))

(* A recalculated document with an outcome recorded whose capital is not   *)
(* positive and whose target is given and valid against the fallback.      *)
C14_Witness ==
    /\ data.initialCapital <= 0
    /\ data.finalTarget > DEFAULT_INITIAL_CAPITAL * Cents
    /\ Flatten(data.months) = Recalculated
    /\ \E i \in 1..Len(Recalculated) : HasOutcome(Recalculated[i])

(* The computed fields of each day. *)
Financials(days) ==
    [i \in 1..Len(days) |-> [field \in FinancialFields |-> days[i][field]]]

(* C16: in every reachable state of the in-memory plan document -- the     *)
(* initial load, including the temporary document of a new journal, SET &  *)
(* RECALCULATE, outcome, sign, free-text, checklist and symbol-visibility  *)
(* edits -- each day's capital, target, profit and dailyRate equal what    *)
(* recalculatePlan computes from the document.  As stated.                 *)
C16_AsStated == Financials(Flatten(data.months)) = Financials(Recalculated)

(* Calendars are generated for tenures up to MaxTenure. *)
MaxTenure == 7

(* The weekday of an ISO date, numbered as getDay numbers it (2025-11-17,  *)
(* date 0, is a Monday).                                                   *)
WeekdayOfISODate(dateStr) == (1 + dateStr) % 7

IsWeekday(dateStr) == WeekdayOfISODate(dateStr) \notin {0, 6}

(* The first weekday after dateStr. *)
NextWeekday(dateStr) ==
    CHOOSE next \in (dateStr + 1)..(dateStr + 3) :
        IsWeekday(next) /\ \A between \in (dateStr + 1)..(next - 1) : ~IsWeekday(between)

(* The calendar generatePlanStructure(tenure, old) is to return. *)
IsTradingCalendar(days, tenure) ==
    /\ Len(days) = tenure
    /\ \A i \in 1..Len(days) : days[i].day = i /\ IsWeekday(days[i].date)
    /\ days[1].date = ISODate(AnchorDate)
    /\ \A i \in 1..(Len(days) - 1) :
            /\ days[i].date < days[i + 1].date
            /\ days[i + 1].date = NextWeekday(days[i].date)

(* C17: generatePlanStructure(tenure, old) for tenure >= 1 returns exactly *)
(* tenure days numbered 1..tenure in order, the first dated at the fixed   *)
(* anchor date, with strictly increasing dates, none on a Saturday or a    *)
(* Sunday, each date the next weekday after the previous one.  As stated,  *)
(* for every prior document and every time zone the program runs in.       *)
C17_AsStated ==
    \A tenure \in 1..MaxTenure : \A timeZone \in TimeZones :
        IsTradingCalendar(Flatten(generatePlanStructure(tenure, data.months, timeZone)),
                          tenure)

(* C18: for every date present in both the prior months and the new        *)
(* calendar, generatePlanStructure copies achieved, pnlSign, actual,       *)
(* winningTrades, losingTrades, logic and the rules checklist from the     *)
(* prior day unchanged, and every day of the result, preserved or new, has *)
(* capital, target, profit and dailyRate 0.                                *)
C18_PreservesJournal ==
    \A tenure \in 1..MaxTenure : \A timeZone \in TimeZones :
        LET oldDays == Flatten(data.months)
            newDays == Flatten(generatePlanStructure(tenure, data.months, timeZone))
        IN  \A i \in 1..Len(newDays) :
                /\ newDays[i].capital = 0 /\ newDays[i].target = 0
                /\ newDays[i].profit = 0 /\ newDays[i].dailyRate = <<0, 1>>
                /\ \A j \in 1..Len(oldDays) :
                        oldDays[j].date = newDays[i].date =>
                            \A field \in JournalFields \ {"day", "date"} :
                                newDays[i][field] = oldDays[j][field]

(* A prior document shorter than MaxTenure whose first day, dated at the   *)
(* anchor date, has a loss recorded, its texts filled in and a rule        *)
(* ticked: a longer calendar has that date and new ones.                   *)
C18_Witness ==
    /\ data.months # << >>
    /\ Len(Flatten(data.months)) < MaxTenure
    /\ LET day == data.months[1].days[1]
       IN  /\ day.date = ISODate(AnchorDate)
           /\ day.actual # << >> /\ day.pnlSign = "-"
           /\ day.winningTrades = "1" /\ day.losingTrades = "1" /\ day.logic = "1"
           /\ day.rules[Len(DEFAULT_RULES)].checked

(* C19: for every text of the tenure field accepted by SET & RECALCULATE   *)
(* (zero, negative and non-numeric text included) the tenure passed to     *)
(* generatePlanStructure and stored in the document is a positive integer  *)
(* (and so the calendar built has that many days).  As stated.             *)
C19_AsStated ==
    /\ data.tenure > 0
    /\ Len(Flatten(data.months)) = data.tenure

----------------------------------------------------------------------------
(* Properties of the order form (checked under SpecForm)                   *)

(* C20: every open position has lots > 0 and leverage in {1, 50, 100, 200, *)
(* 400}, for every lots and leverage value the order form can hold when an *)
(* order is submitted.  As stated.                                         *)
C20_AsStated ==
    \A i \in 1..Len(positions) :
        /\ positions[i].lots > 0
        /\ positions[i].leverage \in {1, 50, 100, 200, 400}

----------------------------------------------------------------------------
(* Properties of the ledger under concurrent events (checked under         *)
(* SpecTrader)                                                             *)

(* C21: an order that arrives together with a trigger close or a valuation *)
(* update is applied to the ledger's current open positions: afterwards    *)
(* the open positions are the current ones, each as last valued, plus the  *)
(* new position, and no closed position is open again.  As stated.         *)
C21_AsStated ==
    [][nextId' # nextId =>
        /\ Len(positions') = Len(positions) + 1
        /\ \A i \in 1..Len(positions) : positions'[i] = positions[i]
        /\ Ids(positions') \cap Ids(tradeHistory') = {}]_vars

----------------------------------------------------------------------------
(* Properties of the price feed (checked under SpecTrade)                  *)

(* The mid price of a quote. *)
Mid(quote) == (quote.bid + quote.ask) \div 2

(* C22: after every tick each instrument's quote has ask - bid = spread in *)
(* pips x pip size, the catalogue's fixed spread, with bid and ask half a  *)
(* spread under and over the mid; hence bid < ask in every state of the    *)
(* feed.                                                                   *)
C22_FixedSpread ==
    \A i \in 1..Len(ALL_SYMBOLS) :
        LET symbol == ALL_SYMBOLS[i]
            quote == prices[symbol.name]
            spread == (symbol.spread * symbol.pips) \div 10
        IN  /\ quote.ask - quote.bid = spread
            /\ 2 * (Mid(quote) - quote.bid) = spread
            /\ 2 * (quote.ask - Mid(quote)) = spread
            /\ quote.bid < quote.ask

(* The feed has ticked: no quote is the initial one. *)
C22_Witness ==
    /\ \A symbolName \in SymbolNames : prices[symbolName] # initialPrices[symbolName]
    /\ \E symbolName \in SymbolNames : prices[symbolName].bid > initialPrices[symbolName].bid

(* C23: on each tick the mid price of an instrument moves from the         *)
(* previous tick's mid by a step of magnitude at most 10 x the             *)
(* instrument's pip size.                                                  *)
C23_BoundedStep ==
    [][Tick =>
        \A symbolName \in SymbolNames :
            Abs(Mid(prices'[symbolName]) - Mid(prices[symbolName]))
                <= 10 * SymbolInfo(symbolName).pips]_vars

(* The feed has ticked down: every mid is five pips under the catalogue's  *)
(* base price.                                                             *)
C23_Witness ==
    \A symbolName \in SymbolNames :
        Mid(prices[symbolName]) = SymbolInfo(symbolName).base - 5 * SymbolInfo(symbolName).pips

(* The instruments an order was ever placed on. *)
Requested ==
    {positions[i].symbol : i \in 1..Len(positions)}
        \cup {tradeHistory[k].symbol : k \in 1..Len(tradeHistory)}
        \cup {rendered.positions[i].symbol : i \in 1..Len(rendered.positions)}

(* C24: quotes are computed only for instruments that are visible or       *)
(* requested: an instrument that is hidden (in hiddenSymbols) and was      *)
(* never requested gets no quote on any tick.  As stated (checked under    *)
(* SpecFeed).                                                              *)
C24_AsStated ==
    [][Tick =>
        \A symbolName \in data.hiddenSymbols \ Requested :
            prices'[symbolName] = prices[symbolName]]_vars

----------------------------------------------------------------------------
(* Properties of the trade history (checked under SpecHistory)             *)

(* C25: the trade history is append-only and newest-first: every step      *)
(* leaves it unchanged or puts new entries at its head, one for each close *)
(* (one at most for an order, a manual close, a valuation or a render; one *)
(* for each position a tick closes); the entries it held are neither       *)
(* modified, nor reordered, nor removed.                                   *)
C25_AppendOnly ==
    [][LET added == Len(tradeHistory') - Len(tradeHistory)
       IN  /\ added >= 0
           /\ SubSeq(tradeHistory', added + 1, Len(tradeHistory')) = tradeHistory
           /\ \/ added <= 1
              \/ /\ Tick
                 /\ \A k \in 1..added : tradeHistory'[k].id \in Ids(positions)
                 /\ \A j, k \in 1..added : j # k => tradeHistory'[j].id # tradeHistory'[k].id]_vars

(* A tick has closed two positions at once: the history holds the          *)
(* take-profit of the Short over the stop-loss of the Long, at the ask and *)
(* the bid of one quote.                                                   *)
C25_Witness ==
    /\ Len(tradeHistory) >= 2
    /\ tradeHistory[1].reason = "Take Profit Hit"
    /\ tradeHistory[2].reason = "Stop Loss Hit"
    /\ tradeHistory[1].id # tradeHistory[2].id
    /\ tradeHistory[1].exitPrice - tradeHistory[2].exitPrice
            = SpreadOf(SymbolInfo("EUR/USD"))

----------------------------------------------------------------------------
(* Properties of the debounced save (checked under SpecSave)               *)

(* C26: a burst of edits, each less than the quiet period after the one    *)
(* before, results in exactly one write, issued one quiet period after the *)
(* last edit and carrying the document of the last edit; the in-memory     *)
(* document is updated at each edit without waiting for the write.  Step   *)
(* by step: an edit changes the in-memory document at once, writes nothing *)
(* and restarts the timer at the full quiet period with its document; the  *)
(* time left only runs down; a write happens when no time is left, carries *)
(* the in-memory document, and leaves no timer behind.                     *)
C26_Debounce ==
    [][/\ data' # data =>
            /\ saved' = saved
            /\ firestoreTimer' = <<data'>>
            /\ delay' = QuietPeriod
       /\ delay' # delay => delay' = QuietPeriod \/ delay' = delay - 1
       /\ firestoreTimer' # << >> => firestoreTimer'[1] = data'
       /\ saved' # saved =>
            /\ firestoreTimer # << >> /\ delay = 0
            /\ saved' = Append(saved, data)
            /\ data' = data
            /\ firestoreTimer' = << >>]_vars

(* One write has been made, of a document that took two edits (an outcome  *)
(* and a WIN count), and no timer is left.                                 *)
C26_Witness ==
    /\ Len(saved) = 1
    /\ saved[1] = data
    /\ firestoreTimer = << >>
    /\ \E pos \in FirstCard :
            LET day == data.months[pos[1]].days[pos[2]]
            IN  day.actual # << >> /\ day.winningTrades = "1"

----------------------------------------------------------------------------
(* Properties of the trigger evaluator's frame (checked under SpecTrader)  *)

(* C27: on a tick, positions whose trigger conditions do not hold for the  *)
(* new quote of their instrument stay open with all fields unchanged, and  *)
(* every position whose condition holds is closed in that same tick,       *)
(* however many other positions the tick closes.  As stated.               *)
C27_AsStated ==
    [][Tick =>
        \A i \in 1..Len(positions) :
            LET pos == positions[i]
                quote == prices'[pos.symbol]
            IN  IF StopLossHolds(pos, quote) \/ TakeProfitHolds(pos, quote)
                THEN pos.id \notin Ids(positions') /\ NewTrades(pos) # {}
                ELSE \E j \in 1..Len(positions') : positions'[j] = pos]_vars

----------------------------------------------------------------------------
(* Properties of the valuation refresh (checked under SpecTrade)           *)

(* C28: on every valuation refresh each open position's unrealized PnL is  *)
(* set to (bid - entryPrice) * lots * contractSize for a Long and          *)
(* (entryPrice - ask) * lots * contractSize for a Short, at the current    *)
(* quote of the position's instrument; the refresh changes no field but    *)
(* the PnL and the current price and neither adds nor removes positions.   *)
(* As stated, the current quote being the feed's.                          *)
C28_AsStated ==
    [][LivePnlUpdate =>
        /\ Len(positions') = Len(positions)
        /\ \A i \in 1..Len(positions) :
            LET pos == positions[i]
                quote == prices[pos.symbol]
                contractSize == IF pos.symbol \in {"BTC/USD", "ETH/USD"} THEN 1 ELSE LOT_SIZE
            IN  /\ positions'[i].pnl =
                        IF pos.type = "BUY"
                        THEN (quote.bid - pos.entryPrice) * pos.lots * contractSize
                        ELSE (pos.entryPrice - quote.ask) * pos.lots * contractSize
                /\ positions'[i] = [pos EXCEPT !.pnl = positions'[i].pnl,
                                               !.currentPrice = positions'[i].currentPrice]]_vars

----------------------------------------------------------------------------
(* Properties of the ideal path (checked under SpecPlan)                   *)

(* The target the ideal path reaches after n days of compounding from      *)
(* capital at rate, and the profit of its last day, each rounded as the    *)
(* plan stores them.                                                       *)
RECURSIVE IdealEntry(_, _, _)
IdealEntry(capital, rate, n) ==
    IF n = 1
    THEN [target |-> MathRound(Compound(capital, rate)),
          profit |-> MathRound(Compound(capital, rate) - capital)]
    ELSE IdealEntry(Compound(capital, rate), rate, n - 1)

(* C29: when the calendar has more days than the sanitized tenure, every   *)
(* day past the tenure gets the target and profit of the last ideal-path   *)
(* entry, the tenure's, not a further compounded value.                    *)
C29_LastGoalRepeated ==
    LET days == Recalculated
        tenure == IF data.tenure > 0 THEN data.tenure ELSE DEFAULT_TENURE_DAYS
        lastGoal == IdealEntry(ValidInitialCapital(data), InitialDailyRate(data), tenure)
    IN  \A i \in 1..Len(days) :
            i > tenure => /\ days[i].target = lastGoal.target
                          /\ days[i].profit = lastGoal.profit
                          /\ days[i].target = days[tenure].target
                          /\ days[i].profit = days[tenure].profit

(* A calendar two days longer than the tenure whose last ideal entry has a *)
(* profit, so that compounding on would give a higher target.              *)
C29_Witness ==
    /\ data.tenure > 0
    /\ Len(Flatten(data.months)) = data.tenure + 2
    /\ Recalculated[data.tenure].profit > 0
    /\ Recalculated[data.tenure + 2].target = Recalculated[data.tenure].target
    /\ Flatten(data.months) = Recalculated

----------------------------------------------------------------------------
(* Properties of the calendar's month groups (checked under SpecCalendar)  *)

(* The longest calendar tried has MaxMonths full groups and a day. *)
MaxMonths == 2

(* Every group but the last holds 22 days, the last between 1 and 22, the  *)
(* ids are 1, 2, 3, ..., and the groups in order hold the days 1..tenure.  *)
IsGrouped(months, tenure) ==
    /\ \A m \in 1..Len(months) :
        /\ months[m].id = m
        /\ m < Len(months) => Len(months[m].days) = 22
        /\ Len(months[m].days) \in 1..22
    /\ Len(Flatten(months)) = tenure
    /\ \A i \in 1..Len(Flatten(months)) : Flatten(months)[i].day = i

(* C30: in the calendar returned by generatePlanStructure every month      *)
(* group except possibly the last holds exactly 22 days, the last between  *)
(* 1 and 22, the groups have ids 1, 2, 3, ... in order, and the groups in  *)
(* order yield the days in day-number order, none missing or repeated.     *)
C30_MonthGroups ==
    /\ IsGrouped(data.months, data.tenure)
    /\ \A tenure \in 0..(MaxMonths * TRADING_DAYS_PER_MONTH + 1) :
        \A timeZone \in TimeZones :
            IsGrouped(generatePlanStructure(tenure, data.months, timeZone), tenure)

(* A calendar of two full groups and a third of one day, generated over an *)
(* edited first card.                                                      *)
C30_Witness ==
    /\ Len(data.months) = 3
    /\ Len(data.months[2].days) = TRADING_DAYS_PER_MONTH
    /\ Len(data.months[3].days) = 1
    /\ data.months[1].days[1].winningTrades = "1"

----------------------------------------------------------------------------
(* Properties of the trader's teardown (checked under SpecTeardown)        *)

(* C31: after the trader's teardown the feed timer and the valuation timer *)
(* are stopped: no price tick, trigger evaluation or valuation refresh     *)
(* occurs any more, so the quotes, the open positions and the history no   *)
(* longer change.                                                          *)
C31_TimersStopped ==
    [][~mounted => /\ ~mounted'
                   /\ prices' = prices
                   /\ positions' = positions
                   /\ tradeHistory' = tradeHistory]_vars

(* The trader was torn down while a Long was open whose stop-loss the      *)
(* feed's next down tick would hit, before its first valuation.            *)
C31_Witness ==
    /\ ~mounted
    /\ \E i \in 1..Len(positions) :
            /\ positions[i].type = "BUY"
            /\ positions[i].stopLoss = Under(positions[i].symbol)
            /\ positions[i].currentPrice = << >>

----------------------------------------------------------------------------
(* Properties of the ideal path (checked under SpecConfig)                 *)

(* The ideal path recalculatePlan builds for the document. *)
IdealPath ==
    PlannedGoals(ValidInitialCapital(data), InitialDailyRate(data), ValidTenure(data))

(* C32: the daily rate that builds the ideal path is positive: for every   *)
(* configuration, valid or sanitized, the ideal targets are non-decreasing *)
(* in the day index, every ideal profit is >= 0 and the first ideal target *)
(* is >= the sanitized initial capital.                                    *)
C32_IdealPathRises ==
    LET path == IdealPath
    IN  /\ InitialDailyRate(data) > 0
        /\ Len(path) = ValidTenure(data)
        /\ \A i \in 1..Len(path) :
                /\ path[i].profit >= 0
                /\ i > 1 => path[i - 1].target <= path[i].target
        /\ path[1].target >= ValidInitialCapital(data)

(* A recalculated document whose capital and tenure were both replaced by  *)
(* their fallbacks: 66 ideal days that rise from 50000.                    *)
C32_Witness ==
    /\ data.initialCapital <= 0
    /\ "tenure" \in DOMAIN data /\ data.tenure <= 0
    /\ Flatten(data.months) = Recalculated
    /\ LET path == IdealPath
       IN  /\ Len(path) = DEFAULT_TENURE_DAYS
           /\ path[1].target > DEFAULT_INITIAL_CAPITAL * Cents
           /\ path[DEFAULT_TENURE_DAYS].target > path[1].target
           /\ Recalculated[1].target = path[1].target

----------------------------------------------------------------------------
(* Properties of the feed's range (checked under SpecTrade)                *)

(* C33: in every state of the feed each instrument's mid price is within   *)
(* 5 pip sizes of its catalogue base price: every tick computes the new    *)
(* mid from the quote the timer's callback captured when it was created,   *)
(* the initial quote, and not from the previous tick's quote, so the       *)
(* quotes never drift away from the base.                                  *)
C33_NoDrift ==
    \A symbolName \in SymbolNames :
        LET symbolInfo == SymbolInfo(symbolName)
        IN  /\ Mid(initialPrices[symbolName]) = symbolInfo.base
            /\ Abs(Mid(prices[symbolName]) - symbolInfo.base) <= 5 * symbolInfo.pips

(* The feed ticked down, which hit a Long's stop-loss, and later ticked    *)
(* up: every mid is just under five pips over the base, not back at it.    *)
C33_Witness ==
    /\ \E k \in 1..Len(tradeHistory) :
            tradeHistory[k].type = "BUY" /\ tradeHistory[k].reason = "Stop Loss Hit"
    /\ \A symbolName \in SymbolNames :
            Mid(prices[symbolName])
                = SymbolInfo(symbolName).base + 5 * SymbolInfo(symbolName).pips - 1

----------------------------------------------------------------------------
(* Properties of the achieved flag (checked under SpecCalendar)            *)

(* C34: in every reachable document, for every day with a recorded         *)
(* outcome, achieved is true exactly when the day's signed outcome is >=   *)
(* the day's current ideal profit: after outcome edits, sign edits, trade  *)
(* settlement and after SET & RECALCULATE changes capital, target or       *)
(* tenure.  As stated.                                                     *)
C34_AsStated ==
    \A m \in 1..Len(data.months) : \A d \in 1..Len(data.months[m].days) :
        LET day == data.months[m].days[d]
        IN  HasOutcome(day) => (day.achieved <=> SignedOutcome(day) >= day.profit)

----------------------------------------------------------------------------
(* Properties of the calendar's length (checked under SpecJournal)         *)

(* C35: after any sequence of operations of the app the calendar held in   *)
(* the document contains exactly document.tenure days, so the ideal path   *)
(* recalculatePlan computes is never shorter than the calendar.  As        *)
(* stated.                                                                 *)
C35_AsStated ==
    /\ Len(Flatten(data.months)) = data.tenure
    /\ ValidTenure(data) >= Len(Flatten(data.months))

----------------------------------------------------------------------------
(* Properties of SET & RECALCULATE with unchanged inputs (checked under    *)
(* SpecReapply)                                                            *)

(* C36: SET & RECALCULATE with capital, target and tenure inputs equal to  *)
(* the document's current values leaves the document unchanged (every      *)
(* day's outcome, sign, achieved flag, trade counts, log text, checklist   *)
(* and financial fields), and applying it twice gives the same result as   *)
(* applying it once.  As stated.                                           *)
C36_AsStated ==
    [][Reapply => /\ data' = data
                  /\ SameTargets(data') = data']_vars

----------------------------------------------------------------------------
(* Properties of PURGE & RESET (checked under SpecReset)                   *)

(* C37: after PURGE & RESET has completed and all pending timers have      *)
(* fired, the persisted document is the default plan (capital 50000,       *)
(* target 1000000, tenure 66, no recorded outcome): a debounced write      *)
(* scheduled by an edit made less than one quiet period before the reset   *)
(* never overwrites the reset document.  As stated.                        *)
C37_AsStated ==
    (ResetDone /\ firestoreTimer = << >>) =>
        LET persisted == saved[Len(saved)]
        IN  /\ persisted.initialCapital = 50000 * Cents
            /\ persisted.finalTarget = 1000000 * Cents
            /\ persisted.tenure = 66
            /\ \A i \in 1..Len(Flatten(persisted.months)) :
                    ~HasOutcome(Flatten(persisted.months)[i])

----------------------------------------------------------------------------
(* Properties of the persistence echo (checked under SpecEcho)             *)

(* The entries of the first day's card that have been filled in. *)
FilledIn(doc) ==
    LET card == doc.months[1].days[1]
    IN  {field \in {"winningTrades", "losingTrades", "logic"} : card[field] # ""}
            \cup (IF HasOutcome(card) THEN {"actual"} ELSE {})

(* C38: no journal edit is lost to a persistence echo: when the snapshot   *)
(* of an earlier write replaces the in-memory document while a later edit  *)
(* waits in the debounce window, that edit and every edit made after the   *)
(* snapshot are contained in the eventually persisted document and in the  *)
(* in-memory document once the system is quiet.  As stated: an edit that   *)
(* replaces a waiting write carries what that write held (the edits fill   *)
(* entries in and never clear one), the write made is the waiting          *)
(* document, and once the system is quiet the in-memory document is the    *)
(* persisted one.                                                          *)
C38_AsStated ==
    /\ [][/\ (firestoreTimer # << >> /\ firestoreTimer' # << >>)
                => FilledIn(firestoreTimer[1]) \subseteq FilledIn(firestoreTimer'[1])
          /\ (firestoreTimer # << >> /\ firestoreTimer' = << >>)
                => saved' = Append(saved, firestoreTimer[1])]_vars
    /\ [](Quiet /\ saved # << >> => data = saved[Len(saved)])

----------------------------------------------------------------------------
(* Properties of the trading capital (checked under SpecSettle)            *)

(* The active trading day's record. *)
ActiveDay(doc) == doc.months[currentMonthIndex(doc)].days[currentDayIndex(doc)]

(* C39: the availableCapital used in the margin checks equals the active   *)
(* trading day's start capital (its capital field), and settling trades on *)
(* the active day changes that day's recorded outcome but leaves its start *)
(* capital, and therefore availableCapital, unchanged for all later opens  *)
(* on the same day.                                                        *)
C39_StartCapital ==
    /\ [](isTodayFound(data) /\ rendered.availableCapital = ActiveDay(data).capital)
    /\ [][data' # data =>
            /\ ActiveDay(data').capital = ActiveDay(data).capital
            /\ ActiveDay(data').actual # ActiveDay(data).actual
            /\ rendered'.availableCapital = rendered.availableCapital]_vars

(* A losing trade has been settled on the active day, whose outcome is     *)
(* recorded, and a later order is open beside it.                          *)
C39_Witness ==
    /\ HasOutcome(ActiveDay(data))
    /\ ActiveDay(data).pnlSign = "-"
    /\ SignedOutcome(ActiveDay(data)) < 0
    /\ \E k \in 1..Len(tradeHistory) : \E i \in 1..Len(positions) :
            positions[i].id > tradeHistory[k].id
    /\ rendered.availableCapital = TraderConfig.initialCapital

====
